---- MODULE Spec2Model ----
(***************************************************************************)
(* Resumable batch-processing core of trem2_unidock:                       *)
(*   - the docking dispatcher and its progress ledger (scripts/dock.py),   *)
(*   - the failure-rate monitor and the concurrent fetch executor          *)
(*     (scripts/getdata.py).                                               *)
(***************************************************************************)
EXTENDS Integers, Sequences, FiniteSets, TLC

(***************************************************************************)
(* Bounds of the model                                                     *)
(***************************************************************************)
NumLigands == 3      \* ligand files in the ligand directory
NumBases == 2        \* distinct ligand base names (ligands of different
                     \* tranches may share a base name)
MaxRuns == 3         \* runs of dock.py (process starts) in one behaviour
MaxTotal == 52       \* largest total_processed drawn for should_halt_download
MaxConsecutive == 12 \* largest consecutive_failures drawn for it
NumUnits == 11       \* URLs of the URI file
NumWorkers == 2      \* max_workers of the download pool
FairUnits == 6       \* URLs of the URI file of the runs checked for progress
RerunUnits == 3      \* URLs of the URI file that is fetched more than once
MaxFetchCalls == 2   \* calls of download_all_from_uri_file in one process
RateStart == 48      \* units processed before the part of a long run that
                     \* is followed around the failure-rate threshold
RateUnits == 3       \* units of that part
RateFailed == 10     \* most failures among the RateStart units
ScriptLen == 5       \* transfer attempts whose outcome is drawn for a unit
MarkLen == 3         \* longest completed_ligands list drawn for a mark
LedgerLen == 2       \* longest completed_ligands list of a drawn state file
SplitLen == 4        \* most lines of the source file of a one-file split
NumStems == 2        \* distinct molecule names in the source files
PairLen == 2         \* most lines of the first source file of a two-file split
NumTranches == 2     \* distinct first parts of source file names
ParseLen == 4        \* most lines of a drawn docked-output file
NumScores == 2       \* distinct affinity values in a docked-output file

(***************************************************************************)
(* Program constants                                                       *)
(***************************************************************************)
MaxFailureRatePct == 20   \* max_failure_rate 0.20, in hundredths
EarlyCheckCount == 50     \* early_check_count
ConsecutiveLimit == 10    \* consecutive_limit
DebugConsecutive == 5     \* threshold of the debug-mode halt
MaxRetries == 3           \* retries of a transient error

(***************************************************************************)
(* Docking dispatcher: scripts/dock.py                                     *)
(***************************************************************************)
VARIABLES
    file,                \* STATE_FILE on disk
    state,               \* run_unidock's in-memory ledger (dict `state`)
    out,                 \* docked-output artifacts in output_dir
    pc,                  \* position of the dock.py process
    savectx,             \* which call of save_docking_state is running
    ligand_files,        \* run_unidock's list ligand_files
    completed_count,     \* run_unidock's completed_count
    successful_dockings, \* run_unidock's successful_dockings
    failed_dockings,     \* run_unidock's failed_dockings
    i,                   \* index of the per-ligand loop (line 229)
    exitcode,            \* how the engine invocation of this run ended
    ret,                 \* value returned by run_unidock, <<>> while none
    runs,                \* number of runs started
    \* history variables (observations, never read by the actions)
    saveArg,             \* argument of the run's last save_docking_state call
    found,               \* ligands found successful by this run
    everPersisted,       \* identities persisted since the last reset
    persistedAtStart,    \* identities persisted when the run began
    ioFailed,            \* a write of the state file has failed in this run
    crashed              \* some run was interrupted or killed

dockVars == <<file, state, out, pc, savectx, ligand_files, completed_count,
              successful_dockings, failed_dockings, i, exitcode, ret, runs,
              saveArg, found, everPersisted, persistedAtStart, ioFailed,
              crashed>>

(***************************************************************************)
(* Failure-rate monitor and fetch executor: scripts/getdata.py             *)
(***************************************************************************)
VARIABLES
    progress_counter,        \* the module-level dict progress_counter
    hdebug,                  \* debug_mode argument of the call under test
    hresult,                 \* (should_halt, reason) it returned, <<>> before
    fpc,                     \* position of download_all_from_uri_file
    queued,                  \* futures submitted and not yet started
    cancelled,               \* futures cancelled
    attempting,              \* pool threads in an attempt, by retry_count
    returning,               \* pool threads past the counter update
    doneOk,                  \* finished futures (result a path) not yet yielded
    doneFail,                \* finished futures (result None) not yet yielded
    doneExc,                 \* finished futures (exception) not yet yielded
    downloaded_files_count,  \* local of download_all_from_uri_file
    failed_downloads_count,  \* local of download_all_from_uri_file
    halted,                  \* a halt check of this run returned True
    \* history variables
    streak,                  \* failures reported in this run since the last
                             \* reported success
    sawLimit                 \* streak has reached consecutive_limit in this run

VARIABLES
    nurls,                   \* len(urls): the URLs read from the URI file
    priorCalls,              \* earlier calls of download_all_from_uri_file
                             \* in this process
    prevAllOk                \* history: the previous call downloaded every
                             \* URL, so every destination file is in place

\* One call of download_zinc_subset followed on its own
VARIABLES
    upc,                     \* position of the call
    retry_count,             \* its parameter retry_count
    script,                  \* how each transfer attempt would end
    attempts,                \* history: transfer attempts made
    uresult,                 \* value returned, <<>> while none
    ucounted                 \* history: counter updates made by the call

\* mark_ligand_completed applied to a drawn ledger
VARIABLES
    mpc,                     \* position: "drawn", "once", "twice"
    mname,                   \* ligand_path
    mstate,                  \* the dict the calls work on
    mbefore                  \* history: the dict before the latest call

\* The state file read and written as text
VARIABLES
    lpc,                     \* position: "start", "saved", "loaded", "resumed"
    ltext,                   \* STATE_FILE: whether it exists, and its text
    lin,                     \* the dict handed to save_docking_state
    lsaved,                  \* history: save_docking_state has run
    lout,                    \* what load_docking_state did
    lstats                   \* what get_resume_stats did

\* split_pdbqt_files
VARIABLES
    spc,                     \* position of split_pdbqt_files
    sources,                 \* the files found by glob("*.pdbqt")
    sstatus,                 \* per source file: state of its future
    spos,                    \* per source file: the next line to read
    current_molecule,        \* per source file: local of split_single_pdbqt
    current_name,            \* per source file: local of split_single_pdbqt
    molecule_count,          \* per source file: local of split_single_pdbqt
    sresult,                 \* per source file: tuple its future returned
    disk,                    \* files under output_dir, with their lines
    total_molecules,         \* local of split_pdbqt_files
    failed_files,            \* local of split_pdbqt_files
    tranches_created,        \* local of split_pdbqt_files
    sret,                    \* value returned, <<>> while none
    swrites                  \* history: the writes made, in order

\* parse_unidock_pdbqt_vina
VARIABLES
    ppc,                     \* position: "reading", "returned"
    plines,                  \* the lines of the docked-output file
    ppos,                    \* the next line to read
    scores,                  \* local of parse_unidock_pdbqt_vina
    presult                  \* the list returned

\* run_single_unidock
VARIABLES
    dpc,                     \* position: "start", "invoke", "returned", "raised"
    dligand,                 \* args.ligand_path
    dout,                    \* the files <base>_out.pdbqt of args.output_dir
    dcode,                   \* how the engine ended
    dret,                    \* the value returned
    dcalls                   \* history: subprocess.run calls made

haltVars == <<hdebug, hresult>>

ledgerVars == <<lpc, ltext, lin, lsaved, lout, lstats>>

splitVars == <<spc, sources, sstatus, spos, current_molecule, current_name,
               molecule_count, sresult, disk, total_molecules, failed_files,
               tranches_created, sret, swrites>>

runVars == <<nurls, priorCalls, prevAllOk>>

unitVars == <<upc, retry_count, script, attempts, uresult, ucounted>>

markVars == <<mpc, mname, mstate, mbefore>>

parseVars == <<ppc, plines, ppos, scores, presult>>

singleVars == <<dpc, dligand, dout, dcode, dret, dcalls>>

toolVars == <<parseVars, singleVars>>

restVars == <<markVars, ledgerVars, splitVars, toolVars>>

fetchVars == <<fpc, queued, cancelled, attempting, returning, doneOk,
               doneFail, doneExc,
               downloaded_files_count, failed_downloads_count, halted,
               streak, sawLimit>>

vars == <<dockVars, progress_counter, haltVars, fetchVars, runVars, unitVars,
         restVars>>

Ligands == 1..NumLigands

\* os.path.splitext(os.path.basename(ligand_file))[0]: the tranche directory
\* is dropped, so ligand l and ligand l + NumBases have the same base name.
Base(l) == ((l - 1) % NumBases) + 1

Range(s) == {s[k] : k \in 1..Len(s)}

\* The empty dict {} and a ledger document.
EmptyState == [has |-> FALSE, completed |-> <<>>]

AbsentFile == [kind |-> "absent", doc |-> EmptyState]
CorruptFile == [kind |-> "corrupt", doc |-> EmptyState]
DocFile(s) == [kind |-> "doc", doc |-> s]

\* load_docking_state: {} when the file is absent or json.load fails.
load_docking_state(f) ==
    IF f.kind = "doc" THEN f.doc ELSE EmptyState

\* state.get('completed_ligands', [])
CompletedOf(s) == IF s.has THEN Range(s.completed) ELSE {}

is_ligand_completed(l, s) == l \in CompletedOf(s)

\* (mutation) a mark that appends nothing
mark_ligand_dropped(l, s) == s

\* (mutation) a mark that appends without looking at the list
mark_ligand_appended(l, s) ==
    LET s1 == IF ~s.has THEN [has |-> TRUE, completed |-> <<>>] ELSE s
    IN  [s1 EXCEPT !.completed = Append(@, l)]

\* mark_ligand_completed, lines 59-64
mark_ligand_completed(l, s) ==
    LET s1 == IF ~s.has THEN [has |-> TRUE, completed |-> <<>>] ELSE s
    IN  IF l \notin Range(s1.completed)
        THEN [s1 EXCEPT !.completed = Append(@, l)]
        ELSE s1

\* get_resume_stats: (completed_count, remaining_count)
get_resume_stats(lf, s) ==
    LET c == Cardinality({k \in 1..Len(lf) : is_ligand_completed(lf[k], s)})
    IN  <<c, Len(lf) - c>>

\* (mutation) the size of the output is not looked at
ArtifactExists(o, p) == o[p] # "missing"

\* os.path.exists(p) and os.path.getsize(p) > 0
ArtifactOK(o, p) == o[p] = "nonempty"

\* Expected output of ligand l: <base>_out.pdbqt in batch mode (line 231),
\* <base>_docked.pdbqt in single mode (line 261).
ExpectedOutput(l, mode) ==
    <<Base(l), IF mode = "batch" THEN "out" ELSE "docked">>

OutPaths == (1..NumBases) \X {"out", "docked"}

Mode(lf) == IF Len(lf) > 1 THEN "batch" ELSE "single"

\* os.listdir order of the ligand directory (one fixed order).
Discovered == [k \in 1..NumLigands |-> k]

\* What an engine run over the ligands lf may have done to the artifacts:
\* each expected output is left alone, written empty or written non-empty.
EngineEffect(o, lf) ==
    LET targets == {ExpectedOutput(lf[k], Mode(lf)) : k \in 1..Len(lf)}
    IN  {o2 \in [OutPaths -> {"missing", "empty", "nonempty"}] :
            /\ \A p \in OutPaths \ targets : o2[p] = o[p]
            /\ \A p \in targets : o2[p] \in {o[p], "empty", "nonempty"}}

Terminal == {"idle", "returned", "raised", "interrupted", "killed", "reset",
             "setup_error"}

DockInit ==
    /\ file = AbsentFile
    /\ state = EmptyState
    /\ out = [p \in OutPaths |-> "missing"]
    /\ pc = "idle"
    /\ savectx = "none"
    /\ ligand_files = <<>>
    /\ completed_count = 0
    /\ successful_dockings = 0
    /\ failed_dockings = 0
    /\ i = 0
    /\ exitcode = "none"
    /\ ret = <<>>
    /\ runs = 0
    /\ saveArg = [called |-> FALSE, arg |-> EmptyState]
    /\ found = {}
    /\ everPersisted = {}
    /\ persistedAtStart = {}
    /\ ioFailed = FALSE
    /\ crashed = FALSE

\* (mutation) a filter that keeps every ligand
RemainingAll(lf, s) == lf

\* The filter of line 187, applied when completed_count > 0.
Remaining(lf, s) ==
    SelectSeq(lf, LAMBDA l : ~is_ligand_completed(l, s))

\* run_unidock, lines 144-199: load the ledger, discover the ligands, skip
\* the completed ones; return at once when nothing remains.
Start ==
    /\ pc \in Terminal
    /\ runs < MaxRuns
    /\ runs' = runs + 1
    /\ LET s == load_docking_state(file)
           stats == get_resume_stats(Discovered, s)
           lf == IF stats[1] > 0 THEN Remaining(Discovered, s) ELSE Discovered
       IN  /\ state' = s
           /\ completed_count' = stats[1]
           /\ ligand_files' = lf
           /\ IF Len(lf) = 0
              THEN /\ pc' = "returned"
                   /\ ret' = <<stats[1], 0>>
              ELSE /\ pc' = "prepare"
                   /\ ret' = <<>>
           /\ persistedAtStart' = CompletedOf(s)
    /\ successful_dockings' = 0
    /\ failed_dockings' = 0
    /\ i' = 0
    /\ exitcode' = "none"
    /\ savectx' = "none"
    /\ saveArg' = [called |-> FALSE, arg |-> EmptyState]
    /\ found' = {}
    /\ ioFailed' = FALSE
    /\ UNCHANGED <<file, out, everPersisted, crashed>>

\* Lines 201-226 / 258-282: the command is built and subprocess.run is
\* entered (inside the try block).
Invoke ==
    /\ pc = "prepare"
    /\ pc' = "invoke"
    /\ UNCHANGED <<file, state, out, savectx, ligand_files, completed_count,
                   successful_dockings, failed_dockings, i, exitcode, ret,
                   runs, saveArg, found, everPersisted, persistedAtStart,
                   ioFailed, crashed>>

\* (mutation) a return that leaves out the ligands skipped as completed
ReturnValueOfRun(succ, failed, cc) == <<succ, failed>>

\* The return statement of lines 319-321.
ReturnValue(succ, failed, cc) == <<succ + cc, failed>>

\* subprocess.run(command, check=...) ends: exit code zero, a non-zero exit
\* (CalledProcessError when check is set) or the executable is missing
\* (FileNotFoundError).
EngineExitBody(check) ==
    /\ pc = "invoke"
    /\ \E code \in {"zero", "nonzero", "notfound"} :
        /\ exitcode' = code
        /\ IF code = "notfound"
           THEN out' = out
           ELSE out' \in EngineEffect(out, ligand_files)
        /\ CASE code = "zero" \/ (code = "nonzero" /\ ~check) ->
                  /\ pc' = "record"
                  /\ i' = 1
                  /\ UNCHANGED <<failed_dockings, ret>>
             [] code = "nonzero" /\ check ->
                  \* lines 246-251 and 298-303
                  /\ failed_dockings' = Len(ligand_files)
                  /\ pc' = "returned"
                  /\ ret' = ReturnValue(successful_dockings,
                                        Len(ligand_files), completed_count)
                  /\ i' = i
             [] code = "notfound" ->
                  IF Mode(ligand_files) = "single"
                  THEN \* lines 304-306
                       /\ failed_dockings' = 1
                       /\ pc' = "returned"
                       /\ ret' = ReturnValue(successful_dockings, 1,
                                             completed_count)
                       /\ i' = i
                  ELSE \* batch mode has no handler: the error leaves
                       \* run_unidock
                       /\ pc' = "raised"
                       /\ UNCHANGED <<failed_dockings, ret, i>>
    /\ UNCHANGED <<file, state, savectx, ligand_files, completed_count,
                   successful_dockings, runs, saveArg, found, everPersisted,
                   persistedAtStart, ioFailed, crashed>>

\* (mutation) subprocess.run without check=True
EngineExitUnchecked == EngineExitBody(FALSE)

\* Lines 226 and 282: subprocess.run(command, check=True, ...)
EngineExit == EngineExitBody(TRUE)

\* One iteration of the loop of lines 229-236 (the only one in single mode,
\* lines 284-290); after the last one save_docking_state is called.
Record ==
    /\ pc = "record"
    /\ LET l == ligand_files[i]
           ok == ArtifactOK(out, ExpectedOutput(l, Mode(ligand_files)))
       IN  /\ IF ok
              THEN /\ successful_dockings' = successful_dockings + 1
                   /\ state' = mark_ligand_completed(l, state)
                   /\ found' = found \cup {l}
                   /\ UNCHANGED failed_dockings
              ELSE /\ failed_dockings' = failed_dockings + 1
                   /\ UNCHANGED <<successful_dockings, state, found>>
    /\ IF i = Len(ligand_files)
       THEN /\ pc' = "save_open"
            /\ savectx' = "normal"
            /\ saveArg' = [called |-> TRUE, arg |-> state']
            /\ i' = i
       ELSE /\ i' = i + 1
            /\ UNCHANGED <<pc, savectx, saveArg>>
    /\ UNCHANGED <<file, out, ligand_files, completed_count, exitcode, ret,
                   runs, everPersisted, persistedAtStart, ioFailed, crashed>>

\* Control after save_docking_state returns: the normal call is followed by
\* the return of run_unidock, the call of the KeyboardInterrupt handler by
\* `raise`.
AfterSave ==
    IF savectx = "normal"
    THEN /\ pc' = "returned"
         /\ ret' = ReturnValue(successful_dockings, failed_dockings,
                               completed_count)
    ELSE /\ pc' = "interrupted"
         /\ ret' = ret

\* (mutation) an IOError of the save that is not caught
SaveIOErrorRaised ==
    /\ ioFailed' = TRUE
    /\ pc' = "raised"
    /\ ret' = ret

\* save_docking_state, lines 52-53: the IOError is caught and reported, and
\* the caller goes on after the call
SaveIOError ==
    /\ ioFailed' = TRUE
    /\ AfterSave

\* save_docking_state, line 50: open(STATE_FILE, 'w') truncates the file, or
\* fails with an IOError that is caught (file untouched).
SaveOpen ==
    /\ pc = "save_open"
    /\ \/ /\ file' = CorruptFile
          /\ pc' = "save_write"
          /\ UNCHANGED <<ret, ioFailed>>
       \/ /\ file' = file
          /\ SaveIOError
    /\ UNCHANGED <<state, out, savectx, ligand_files, completed_count,
                   successful_dockings, failed_dockings, i, exitcode, runs,
                   saveArg, found, everPersisted, persistedAtStart, crashed>>

\* save_docking_state, line 51: json.dump writes the whole document, or
\* fails with an IOError that is caught (the file keeps the partial write).
SaveWrite ==
    /\ pc = "save_write"
    /\ \/ /\ file' = DocFile(state)
          /\ everPersisted' = everPersisted \cup CompletedOf(state)
          /\ UNCHANGED ioFailed
          /\ AfterSave
       \/ /\ file' = file
          /\ UNCHANGED everPersisted
          /\ SaveIOError
    /\ UNCHANGED <<state, out, savectx, ligand_files, completed_count,
                   successful_dockings, failed_dockings, i, exitcode, runs,
                   saveArg, found, persistedAtStart, crashed>>

\* KeyboardInterrupt inside the try block (during subprocess.run, the
\* per-ligand loop or the save of line 239).  An interrupted engine may have
\* written some outputs.  With `saves` the handler of lines 252-256 / 310-314
\* calls save_docking_state(state) before `raise`.
InterruptBody(saves) ==
    /\ pc \in {"invoke", "record", "save_open", "save_write"}
    /\ savectx # "handler"
    /\ IF pc = "invoke"
       THEN out' \in EngineEffect(out, ligand_files)
       ELSE out' = out
    /\ savectx' = "handler"
    /\ IF saves
       THEN /\ pc' = "save_open"
            /\ saveArg' = [called |-> TRUE, arg |-> state]
       ELSE /\ pc' = "interrupted"
            /\ UNCHANGED saveArg
    /\ exitcode' = IF pc = "invoke" THEN "interrupted" ELSE exitcode
    /\ crashed' = TRUE
    /\ UNCHANGED <<file, state, ligand_files, completed_count,
                   successful_dockings, failed_dockings, i, ret, runs, found,
                   everPersisted, persistedAtStart, ioFailed>>

\* (mutation) a handler that re-raises without saving
InterruptNoSave == InterruptBody(FALSE)

\* Lines 252-256 and 310-314: except KeyboardInterrupt
Interrupt == InterruptBody(TRUE)

\* KeyboardInterrupt before the try block is entered: nothing catches it.
InterruptOutsideTry ==
    /\ pc = "prepare"
    /\ pc' = "interrupted"
    /\ crashed' = TRUE
    /\ UNCHANGED <<file, state, out, savectx, ligand_files, completed_count,
                   successful_dockings, failed_dockings, i, exitcode, ret,
                   runs, saveArg, found, everPersisted, persistedAtStart,
                   ioFailed>>

\* The process is killed (SIGKILL, node failure): memory is lost, the disk
\* stays as it is.
Kill ==
    /\ pc \notin Terminal
    /\ pc' = "killed"
    /\ crashed' = TRUE
    /\ UNCHANGED <<file, state, out, savectx, ligand_files, completed_count,
                   successful_dockings, failed_dockings, i, exitcode, ret,
                   runs, saveArg, found, everPersisted, persistedAtStart,
                   ioFailed>>

\* (mutation) a removal that leaves the file in place
os_remove_kept(f) == f

\* os.remove(STATE_FILE), line 326
os_remove(f) == AbsentFile

\* dock.py --reset (lines 337-339): a new process that calls
\* reset_docking_state, which removes the state file if there is one (lines
\* 325-330), and exits without calling run_unidock.
reset_docking_state ==
    /\ pc \in Terminal
    /\ file' = IF file.kind # "absent" THEN os_remove(file) ELSE file
    /\ everPersisted' = {}
    /\ pc' = "reset"
    /\ state' = EmptyState
    /\ savectx' = "none"
    /\ ligand_files' = <<>>
    /\ completed_count' = 0
    /\ successful_dockings' = 0
    /\ failed_dockings' = 0
    /\ i' = 0
    /\ exitcode' = "none"
    /\ ret' = <<>>
    /\ saveArg' = [called |-> FALSE, arg |-> EmptyState]
    /\ found' = {}
    /\ persistedAtStart' = {}
    /\ ioFailed' = FALSE
    /\ UNCHANGED <<out, runs, crashed>>

\* dock.py without --reset, lines 370-382: the receptor file is missing, or
\* LIGAND_DIR is missing or empty; __main__ calls exit(1) before the state
\* file is read and before run_unidock is called.
MainSetupError ==
    /\ pc \in Terminal
    /\ pc' = "setup_error"
    /\ state' = EmptyState
    /\ savectx' = "none"
    /\ ligand_files' = <<>>
    /\ completed_count' = 0
    /\ successful_dockings' = 0
    /\ failed_dockings' = 0
    /\ i' = 0
    /\ exitcode' = "none"
    /\ ret' = <<>>
    /\ saveArg' = [called |-> FALSE, arg |-> EmptyState]
    /\ found' = {}
    /\ persistedAtStart' = {}
    /\ ioFailed' = FALSE
    /\ UNCHANGED <<file, out, runs, everPersisted, crashed>>

\* The exit status of a dock.py process that ended in p, run_unidock having
\* returned r if it returned: exit(0) after the reset (line 339), exit(1) on
\* a setup error (lines 376, 382) and in the handler of lines 455-458, which
\* catches what run_unidock raised and also the KeyError of line 449, where
\* metrics['ligands_per_minute'] is read from the empty dict that
\* timer.finish() reports when the count of successful dockings is 0; and 0
\* when the end of the script is reached.
MainExit(p, r) ==
    CASE p = "reset" -> 0
      [] p = "setup_error" -> 1
      [] p = "raised" -> 1
      [] p = "returned" -> IF r[1] > 0 THEN 0 ELSE 1
      [] OTHER -> 1

(***************************************************************************)
(* scripts/getdata.py: the monitor                                         *)
(***************************************************************************)

\* progress_counter as the module creates it (line 23)
ZeroCounter ==
    [completed |-> 0, failed |-> 0, consecutive_failures |-> 0,
     total_processed |-> 0]

\* (mutation) the failure rate compared with >= instead of >
RateExceededInclusive(failed, total, pct) == failed * 100 >= pct * total

\* failure_rate = failed / total; failure_rate > max_failure_rate
\* (lines 121-122), with max_failure_rate in hundredths.  The float
\* quotient of two small integers compares with the float 0.20 as the exact
\* quotient compares with 1/5, so the comparison is made on integers.
RateExceeded(failed, total, pct) == failed * 100 > pct * total

\* should_halt_download (lines 103-129): (should_halt, reason); the reason
\* is the kind of the message returned
should_halt_download(pct, early_check_count, consecutive_limit, debug_mode, pcnt) ==
    LET total == pcnt.total_processed
        failed == pcnt.failed
        consecutive == pcnt.consecutive_failures
    IN  IF consecutive >= consecutive_limit
        THEN <<TRUE, "consecutive failures">>
        ELSE IF total >= early_check_count /\ RateExceeded(failed, total, pct)
        THEN <<TRUE, "failure rate">>
        ELSE IF debug_mode /\ consecutive >= DebugConsecutive
        THEN <<TRUE, "debug halt">>
        ELSE <<FALSE, "none">>

\* Lines 69-72: the counter update of a success, under download_lock
CountSuccess(pcnt) ==
    [pcnt EXCEPT !.completed = @ + 1,
                 !.consecutive_failures = 0,
                 !.total_processed = @ + 1]

\* Lines 89-92 and 96-99: the counter update of a permanent failure
CountFailure(pcnt) ==
    [pcnt EXCEPT !.failed = @ + 1,
                 !.consecutive_failures = @ + 1,
                 !.total_processed = @ + 1]

\* Counter values the monitor is consulted with.  completed and failed are
\* zeroed at the start of a run while the other two are not (lines 165-167),
\* so failed and consecutive_failures are bounded by total_processed only.
CounterInputs ==
    {c \in [completed : 0..MaxTotal, failed : 0..MaxTotal,
            consecutive_failures : 0..MaxConsecutive,
            total_processed : 0..MaxTotal] :
        /\ c.completed + c.failed = c.total_processed
        /\ c.consecutive_failures <= c.total_processed}

FetchIdle ==
    /\ fpc = "idle"
    /\ queued = 0
    /\ cancelled = 0
    /\ attempting = [k \in 0..MaxRetries |-> 0]
    /\ returning = [ok |-> 0, fail |-> 0]
    /\ doneOk = 0
    /\ doneFail = 0
    /\ doneExc = 0
    /\ downloaded_files_count = 0
    /\ failed_downloads_count = 0
    /\ halted = FALSE
    /\ streak = 0
    /\ sawLimit = FALSE

HaltIdle ==
    /\ hdebug = FALSE
    /\ hresult = <<>>

UnitIdle ==
    /\ upc = "idle"
    /\ retry_count = 0
    /\ script = <<>>
    /\ attempts = 0
    /\ uresult = <<>>
    /\ ucounted = 0

MarkIdle ==
    /\ mpc = "idle"
    /\ mname = 0
    /\ mstate = EmptyState
    /\ mbefore = EmptyState

LedgerIdle ==
    /\ lpc = "idle"
    /\ ltext = [exists |-> FALSE, text |-> <<>>]
    /\ lin = EmptyState
    /\ lsaved = FALSE
    /\ lout = [raised |-> FALSE, kind |-> "none", doc |-> EmptyState]
    /\ lstats = [raised |-> FALSE, counts |-> <<0, 0>>]

SplitIdle ==
    /\ spc = "idle"
    /\ sources = <<>>
    /\ sstatus = <<>>
    /\ spos = <<>>
    /\ current_molecule = <<>>
    /\ current_name = <<>>
    /\ molecule_count = <<>>
    /\ sresult = <<>>
    /\ disk = {}
    /\ total_molecules = 0
    /\ failed_files = 0
    /\ tranches_created = {}
    /\ sret = <<>>
    /\ swrites = <<>>

ParseIdle ==
    /\ ppc = "idle"
    /\ plines = <<>>
    /\ ppos = 0
    /\ scores = <<>>
    /\ presult = <<>>

SingleIdle ==
    /\ dpc = "idle"
    /\ dligand = 0
    /\ dout = [b \in 1..NumBases |-> "missing"]
    /\ dcode = "none"
    /\ dret = 0
    /\ dcalls = 0

ToolIdle == ParseIdle /\ SingleIdle

RestIdle ==
    /\ MarkIdle
    /\ LedgerIdle
    /\ SplitIdle
    /\ ToolIdle

\* The URI file holds n URLs; nothing was fetched in this process yet.
RunIdle(n) ==
    /\ nurls = n
    /\ priorCalls = 0
    /\ prevAllOk = FALSE

\* A call of should_halt_download with the thresholds of line 197
HaltCheck ==
    /\ hresult = <<>>
    /\ hresult' = should_halt_download(MaxFailureRatePct, EarlyCheckCount,
                                       ConsecutiveLimit, hdebug,
                                       progress_counter)
    /\ UNCHANGED <<dockVars, progress_counter, hdebug, fetchVars, runVars,
                   unitVars, restVars>>

HaltInit ==
    /\ DockInit
    /\ FetchIdle
    /\ RunIdle(NumUnits)
    /\ UnitIdle
    /\ RestIdle
    /\ progress_counter \in CounterInputs
    /\ hdebug \in BOOLEAN
    /\ hresult = <<>>

HaltNext == HaltCheck

SpecHalt == HaltInit /\ [][HaltNext]_vars

(***************************************************************************)
(* scripts/getdata.py: the fetch executor                                  *)
(***************************************************************************)

\* The pool threads are interchangeable, so the pool is kept as counts:
\* attempting[k] threads are in an attempt with retry_count = k, and
\* returning.ok / returning.fail threads have updated the counters and are
\* about to return from download_zinc_subset.
Busy ==
    LET RECURSIVE Sum(_)
        Sum(k) == IF k < 0 THEN 0 ELSE attempting[k] + Sum(k - 1)
    IN  Sum(MaxRetries) + returning.ok + returning.fail

PoolIdle == Busy = 0

PoolAlive == fpc \in {"collect", "cancel", "shutdown"}

\* download_all_from_uri_file, lines 145-184: read the URLs, zero completed
\* and failed, submit one future per URL.
FetchStart ==
    /\ fpc = "idle"
    /\ progress_counter' =
          [progress_counter EXCEPT !.completed = 0, !.failed = 0]
    /\ queued' = nurls
    /\ fpc' = "collect"
    /\ UNCHANGED <<cancelled, attempting, returning, doneOk, doneFail,
                   doneExc, downloaded_files_count, failed_downloads_count,
                   halted, streak, sawLimit>>

\* A pool thread takes the next queued future and calls
\* download_single_file (retry_count = 0).
WorkerStart ==
    /\ PoolAlive
    /\ Busy < NumWorkers
    /\ queued > 0
    /\ queued' = queued - 1
    /\ attempting' = [attempting EXCEPT ![0] = @ + 1]
    /\ UNCHANGED <<progress_counter, fpc, cancelled, returning, doneOk,
                   doneFail, doneExc, downloaded_files_count,
                   failed_downloads_count, halted, streak, sawLimit>>

\* Lines 53-76: the transfer succeeds; the counters are updated under
\* download_lock.
AttemptSuccess(k) ==
    /\ attempting[k] > 0
    /\ progress_counter' = CountSuccess(progress_counter)
    /\ attempting' = [attempting EXCEPT ![k] = @ - 1]
    /\ returning' = [returning EXCEPT !.ok = @ + 1]
    /\ streak' = 0
    /\ UNCHANGED <<fpc, queued, cancelled, doneOk, doneFail, doneExc,
                   downloaded_files_count, failed_downloads_count, halted,
                   sawLimit>>

\* The bookkeeping of a failure report
NoteFailure ==
    /\ streak' = streak + 1
    /\ sawLimit' = (sawLimit \/ streak + 1 >= ConsecutiveLimit)

\* (mutation) one more retry is granted
ShouldRetryOnceMore(rc) == rc <= MaxRetries

\* Line 82: if retry_count < 3
ShouldRetry(rc) == rc < MaxRetries

\* Lines 80-94: a RequestException; retried (the function calls itself with
\* retry_count + 1) while retry_count < 3, else a permanent failure.
AttemptTransient(k) ==
    /\ attempting[k] > 0
    /\ IF ShouldRetry(k)
       THEN /\ attempting' = [attempting EXCEPT ![k] = @ - 1,
                                                ![k + 1] = @ + 1]
            /\ UNCHANGED <<progress_counter, returning, streak, sawLimit>>
       ELSE /\ progress_counter' = CountFailure(progress_counter)
            /\ attempting' = [attempting EXCEPT ![k] = @ - 1]
            /\ returning' = [returning EXCEPT !.fail = @ + 1]
            /\ NoteFailure
    /\ UNCHANGED <<fpc, queued, cancelled, doneOk, doneFail, doneExc,
                   downloaded_files_count, failed_downloads_count, halted>>

\* Lines 95-101: any other exception is a permanent failure at once.
AttemptError(k) ==
    /\ attempting[k] > 0
    /\ progress_counter' = CountFailure(progress_counter)
    /\ attempting' = [attempting EXCEPT ![k] = @ - 1]
    /\ returning' = [returning EXCEPT !.fail = @ + 1]
    /\ NoteFailure
    /\ UNCHANGED <<fpc, queued, cancelled, doneOk, doneFail, doneExc,
                   downloaded_files_count, failed_downloads_count, halted>>

\* Lines 35-36: os.makedirs is outside the try block; its error leaves
\* download_zinc_subset and becomes the exception of the future.
AttemptRaise(k) ==
    /\ attempting[k] > 0
    /\ attempting' = [attempting EXCEPT ![k] = @ - 1]
    /\ doneExc' = doneExc + 1
    /\ UNCHANGED <<progress_counter, fpc, queued, cancelled, returning,
                   doneOk, doneFail, downloaded_files_count,
                   failed_downloads_count, halted, streak, sawLimit>>

\* Lines 78, 94, 101: the function returns and the future is finished.
WorkerFinish ==
    /\ \/ /\ returning.ok > 0
          /\ returning' = [returning EXCEPT !.ok = @ - 1]
          /\ doneOk' = doneOk + 1
          /\ UNCHANGED doneFail
       \/ /\ returning.fail > 0
          /\ returning' = [returning EXCEPT !.fail = @ - 1]
          /\ doneFail' = doneFail + 1
          /\ UNCHANGED doneOk
    /\ UNCHANGED <<progress_counter, fpc, queued, cancelled, attempting,
                   doneExc, downloaded_files_count, failed_downloads_count,
                   halted, streak, sawLimit>>

\* The halt check of lines 197-198 and 213-214, with the thresholds and the
\* debug mode the code passes.
HaltDecision(pcnt) ==
    should_halt_download(MaxFailureRatePct, EarlyCheckCount,
                         ConsecutiveLimit, TRUE, pcnt)[1]

\* Lines 196-206 and 212-217: the halt check that follows the counting of a
\* result.  On halt the normal path goes on to cancel the futures, the
\* exception path breaks at once.
Check(path) ==
    IF HaltDecision(progress_counter)
    THEN /\ halted' = TRUE
         /\ fpc' = IF path = "result" THEN "cancel" ELSE "shutdown"
    ELSE /\ fpc' = "collect"
         /\ UNCHANGED halted

\* One iteration of the loop of lines 187-217: as_completed yields a
\* finished future, its result is counted (lines 190-194, or 208-210 when
\* future.result() raises), and the monitor is consulted.  The counting
\* touches only locals of the collector, so the iteration is one step taken
\* at its read of the counters.
Collect ==
    /\ fpc = "collect"
    /\ \/ /\ doneOk > 0
          /\ doneOk' = doneOk - 1
          /\ downloaded_files_count' = downloaded_files_count + 1
          /\ Check("result")
          /\ UNCHANGED <<doneFail, doneExc, failed_downloads_count>>
       \/ /\ doneFail > 0
          /\ doneFail' = doneFail - 1
          /\ failed_downloads_count' = failed_downloads_count + 1
          /\ Check("result")
          /\ UNCHANGED <<doneOk, doneExc, downloaded_files_count>>
       \/ /\ doneExc > 0
          /\ doneExc' = doneExc - 1
          /\ failed_downloads_count' = failed_downloads_count + 1
          /\ Check("exception")
          /\ UNCHANGED <<doneOk, doneFail, downloaded_files_count>>
    /\ UNCHANGED <<progress_counter, queued, cancelled, attempting, returning,
                   streak, sawLimit>>

\* Lines 204-206: one pending future is cancelled; when none is pending the
\* loop ends and the collector breaks.
CancelStep ==
    /\ fpc = "cancel"
    /\ IF queued > 0
       THEN /\ queued' = queued - 1
            /\ cancelled' = cancelled + 1
            /\ UNCHANGED fpc
       ELSE /\ fpc' = "shutdown"
            /\ UNCHANGED <<queued, cancelled>>
    /\ UNCHANGED <<progress_counter, attempting, returning, doneOk,
                   doneFail, doneExc,
                   downloaded_files_count, failed_downloads_count, halted,
                   streak, sawLimit>>

\* (mutation) the loop ends while finished futures are still to be yielded
LoopEndEarly ==
    /\ fpc = "collect"
    /\ queued = 0
    /\ PoolIdle
    /\ fpc' = "shutdown"
    /\ UNCHANGED <<progress_counter, queued, cancelled, attempting,
                   returning, doneOk,
                   doneFail, doneExc, downloaded_files_count,
                   failed_downloads_count, halted, streak, sawLimit>>

\* as_completed is exhausted: every future was yielded.
LoopEnd ==
    /\ fpc = "collect"
    /\ queued = 0
    /\ PoolIdle
    /\ doneOk = 0 /\ doneFail = 0 /\ doneExc = 0
    /\ fpc' = "shutdown"
    /\ UNCHANGED <<progress_counter, queued, cancelled, attempting,
                   returning, doneOk,
                   doneFail, doneExc, downloaded_files_count,
                   failed_downloads_count, halted, streak, sawLimit>>

\* (mutation) the executor is left without waiting for the pool threads
FetchReturnNoWait ==
    /\ fpc = "shutdown"
    /\ queued = 0
    /\ fpc' = "done"
    /\ UNCHANGED <<progress_counter, queued, cancelled, attempting,
                   returning, doneOk,
                   doneFail, doneExc, downloaded_files_count,
                   failed_downloads_count, halted, streak, sawLimit>>

\* Leaving the with block (executor.shutdown(wait=True)) once the pool has
\* drained, then lines 219-223: return the two counts.
FetchReturn ==
    /\ fpc = "shutdown"
    /\ queued = 0
    /\ PoolIdle
    /\ fpc' = "done"
    /\ UNCHANGED <<progress_counter, queued, cancelled, attempting,
                   returning, doneOk,
                   doneFail, doneExc, downloaded_files_count,
                   failed_downloads_count, halted, streak, sawLimit>>

\* A fresh process about to fetch a URI file of n URLs
FreshFetch(n) ==
    /\ DockInit
    /\ progress_counter = ZeroCounter
    /\ HaltIdle
    /\ FetchIdle
    /\ RunIdle(n)
    /\ UnitIdle
    /\ RestIdle

FetchInit == FreshFetch(NumUnits)

nonFetch == <<dockVars, haltVars, runVars, unitVars, restVars>>

\* The steps of the pool threads and of the collector
PoolNext ==
    \/ WorkerStart /\ UNCHANGED nonFetch
    \/ \E k \in 0..MaxRetries : AttemptSuccess(k) /\ UNCHANGED nonFetch
    \/ \E k \in 0..MaxRetries : AttemptTransient(k) /\ UNCHANGED nonFetch
    \/ \E k \in 0..MaxRetries : AttemptError(k) /\ UNCHANGED nonFetch
    \/ \E k \in 0..MaxRetries : AttemptRaise(k) /\ UNCHANGED nonFetch
    \/ WorkerFinish /\ UNCHANGED nonFetch
    \/ Collect /\ UNCHANGED nonFetch
    \/ CancelStep /\ UNCHANGED nonFetch
    \/ LoopEnd /\ UNCHANGED nonFetch
    \/ FetchReturn /\ UNCHANGED nonFetch

FetchNext ==
    \/ FetchStart /\ UNCHANGED nonFetch
    \/ PoolNext

SpecFetch == FetchInit /\ [][FetchNext]_vars

\* The same run over a shorter URI file, with the scheduling the code relies
\* on: a pool thread that can take a step takes one (each transfer ends, by
\* its result or by the timeout of line 53), and so does the collector.
FairInit == FreshFetch(FairUnits)

SpecFetchFair == FairInit /\ [][FetchNext]_vars /\ WF_vars(FetchNext)

\* download_all_from_uri_file is called again in the same process, over the
\* same URI file (lines 145-184 again): progress_counter is the module-level
\* dict of line 23, everything else is local to the call.
FetchAgain ==
    /\ fpc = "done"
    /\ priorCalls < MaxFetchCalls - 1
    /\ priorCalls' = priorCalls + 1
    /\ prevAllOk' = (downloaded_files_count = nurls)
    /\ progress_counter' =
          [progress_counter EXCEPT !.completed = 0, !.failed = 0]
    /\ queued' = nurls
    /\ fpc' = "collect"
    /\ cancelled' = 0
    /\ doneOk' = 0
    /\ doneFail' = 0
    /\ doneExc' = 0
    /\ downloaded_files_count' = 0
    /\ failed_downloads_count' = 0
    /\ halted' = FALSE
    /\ sawLimit' = FALSE
    /\ UNCHANGED <<nurls, attempting, returning, streak>>
    /\ UNCHANGED <<dockVars, haltVars, unitVars, restVars>>

RerunInit == FreshFetch(RerunUnits)

RerunNext ==
    \/ FetchNext
    \/ FetchAgain

SpecRerun == RerunInit /\ [][RerunNext]_vars

\* Counter values in the middle of a run over a long URI file: RateStart
\* units have been processed and collected, no halt check has fired (fewer
\* than DebugConsecutive failures in a row, and fewer than early_check_count
\* units, so the rate was never looked at).
MidRunCounters ==
    {c \in [completed : (RateStart - RateFailed)..RateStart,
            failed : 0..RateFailed,
            consecutive_failures : 0..(DebugConsecutive - 1),
            total_processed : {RateStart}] :
        /\ c.completed + c.failed = c.total_processed
        /\ c.consecutive_failures <= c.failed}

\* That run with RateUnits of its units still queued (the loop of lines
\* 187-217 after RateStart iterations)
RateInit ==
    /\ DockInit
    /\ HaltIdle
    /\ UnitIdle
    /\ RestIdle
    /\ RunIdle(RateStart + RateUnits)
    /\ progress_counter \in MidRunCounters
    /\ fpc = "collect"
    /\ queued = RateUnits
    /\ cancelled = 0
    /\ attempting = [k \in 0..MaxRetries |-> 0]
    /\ returning = [ok |-> 0, fail |-> 0]
    /\ doneOk = 0
    /\ doneFail = 0
    /\ doneExc = 0
    /\ downloaded_files_count = progress_counter.completed
    /\ failed_downloads_count = progress_counter.failed
    /\ halted = FALSE
    /\ streak = progress_counter.consecutive_failures
    /\ sawLimit = FALSE

SpecRate == RateInit /\ [][PoolNext]_vars

(***************************************************************************)
(* scripts/getdata.py: one call of download_zinc_subset                    *)
(***************************************************************************)

\* How a call of the function can end: the transfer succeeds (lines 53-78),
\* fails with a RequestException (line 80), fails with another exception
\* (line 95), or os.makedirs raises before the try block (lines 35-36).
Outcomes == {"ok", "transient", "error", "raise"}

\* script[j] is how the j-th call of the function (retry_count = j - 1) ends
Scripts == [1..ScriptLen -> Outcomes]

nonUnit == <<dockVars, haltVars, fetchVars, runVars, restVars>>

UnitInit ==
    /\ DockInit
    /\ HaltIdle
    /\ FetchIdle
    /\ RunIdle(1)
    /\ RestIdle
    /\ progress_counter = ZeroCounter
    /\ upc = "call"
    /\ retry_count = 0
    /\ script \in Scripts
    /\ attempts = 0
    /\ uresult = <<>>
    /\ ucounted = 0

\* The outcome of the call that is about to be made
Upcoming == script[retry_count + 1]

\* Lines 35-36: os.makedirs raises; nothing is caught
UnitRaise ==
    /\ upc = "call"
    /\ Upcoming = "raise"
    /\ upc' = "raised"
    /\ UNCHANGED <<progress_counter, retry_count, script, attempts, uresult,
                   ucounted>>

\* Lines 53-78: the transfer succeeds
UnitSuccess ==
    /\ upc = "call"
    /\ Upcoming = "ok"
    /\ attempts' = attempts + 1
    /\ progress_counter' = CountSuccess(progress_counter)
    /\ ucounted' = ucounted + 1
    /\ uresult' = <<"filepath">>
    /\ upc' = "returned"
    /\ UNCHANGED <<retry_count, script>>

\* Lines 80-94: a RequestException
UnitTransient ==
    /\ upc = "call"
    /\ Upcoming = "transient"
    /\ attempts' = attempts + 1
    /\ IF ShouldRetry(retry_count)
       THEN /\ upc' = "backoff"
            /\ UNCHANGED <<progress_counter, ucounted, uresult>>
       ELSE /\ progress_counter' = CountFailure(progress_counter)
            /\ ucounted' = ucounted + 1
            /\ uresult' = <<"None">>
            /\ upc' = "returned"
    /\ UNCHANGED <<retry_count, script>>

\* Lines 86-87: time.sleep(backoff_time), then the function calls itself
\* with retry_count + 1 and returns what that call returns
UnitBackoff ==
    /\ upc = "backoff"
    /\ retry_count' = retry_count + 1
    /\ upc' = "call"
    /\ UNCHANGED <<progress_counter, script, attempts, uresult, ucounted>>

\* (mutation) another exception handled like a RequestException
UnitErrorRetried ==
    /\ upc = "call"
    /\ Upcoming = "error"
    /\ attempts' = attempts + 1
    /\ IF ShouldRetry(retry_count)
       THEN /\ upc' = "backoff"
            /\ UNCHANGED <<progress_counter, ucounted, uresult>>
       ELSE /\ progress_counter' = CountFailure(progress_counter)
            /\ ucounted' = ucounted + 1
            /\ uresult' = <<"None">>
            /\ upc' = "returned"
    /\ UNCHANGED <<retry_count, script>>

\* Lines 95-101: any other exception
UnitError ==
    /\ upc = "call"
    /\ Upcoming = "error"
    /\ attempts' = attempts + 1
    /\ progress_counter' = CountFailure(progress_counter)
    /\ ucounted' = ucounted + 1
    /\ uresult' = <<"None">>
    /\ upc' = "returned"
    /\ UNCHANGED <<retry_count, script>>

UnitNext ==
    \/ UnitRaise /\ UNCHANGED nonUnit
    \/ UnitSuccess /\ UNCHANGED nonUnit
    \/ UnitTransient /\ UNCHANGED nonUnit
    \/ UnitBackoff /\ UNCHANGED nonUnit
    \/ UnitError /\ UNCHANGED nonUnit

\* The thread that runs the call keeps running: the transfer ends (timeout
\* of line 53) and the sleep of line 86 ends.
SpecUnit == UnitInit /\ [][UnitNext]_vars /\ WF_vars(UnitNext)

(***************************************************************************)
(* scripts/dock.py: mark_ligand_completed on its own                       *)
(***************************************************************************)

\* The dicts load_docking_state can return: {} or a document whose
\* completed_ligands is any list of ligand names, as found in the file
LedgerStates ==
    {EmptyState} \cup
    {[has |-> TRUE, completed |-> q] :
        q \in UNION {[1..n -> Ligands] : n \in 0..MarkLen}}

nonMark == <<dockVars, progress_counter, haltVars, fetchVars, runVars,
             unitVars, ledgerVars, splitVars, toolVars>>

MarkInit ==
    /\ DockInit
    /\ progress_counter = ZeroCounter
    /\ HaltIdle
    /\ FetchIdle
    /\ RunIdle(NumUnits)
    /\ UnitIdle
    /\ LedgerIdle
    /\ SplitIdle
    /\ ToolIdle
    /\ mpc = "drawn"
    /\ mname \in Ligands
    /\ mstate \in LedgerStates
    /\ mbefore = EmptyState

\* mark_ligand_completed(ligand_path, state), a first and a second time
MarkOnce ==
    /\ mpc = "drawn"
    /\ mbefore' = mstate
    /\ mstate' = mark_ligand_completed(mname, mstate)
    /\ mpc' = "once"
    /\ UNCHANGED mname

MarkTwice ==
    /\ mpc = "once"
    /\ mbefore' = mstate
    /\ mstate' = mark_ligand_completed(mname, mstate)
    /\ mpc' = "twice"
    /\ UNCHANGED mname

MarkNext ==
    \/ MarkOnce /\ UNCHANGED nonMark
    \/ MarkTwice /\ UNCHANGED nonMark

SpecMark == MarkInit /\ [][MarkNext]_vars

(***************************************************************************)
(* scripts/dock.py: the state file as text                                 *)
(***************************************************************************)

\* The text of the state file is a sequence of tokens: punctuation, the key
\* "completed_ligands", ligand names, text that is not JSON ("garbage") and
\* bytes that are not text in the encoding of open(STATE_FILE, 'r')
\* ("bytes").
Tok(x) == [t |-> x, n |-> 0]

NameTok(l) == [t |-> "name", n |-> l]

NameToks(q) == [k \in 1..Len(q) |-> NameTok(q[k])]

\* (mutation) a dump that stops before the closing brace
json_dump_unclosed(s) ==
    IF ~s.has THEN <<Tok("{")>>
    ELSE <<Tok("{"), Tok("completed_ligands"), Tok("[")>>
            \o NameToks(s.completed) \o <<Tok("]")>>

\* json.dump(state, f, indent=2), line 51
json_dump(s) ==
    IF ~s.has THEN <<Tok("{"), Tok("}")>>
    ELSE <<Tok("{"), Tok("completed_ligands"), Tok("[")>>
            \o NameToks(s.completed) \o <<Tok("]"), Tok("}")>>

\* json.load(f), line 40: the value parsed, or the exception raised
json_load(t) ==
    LET n == Len(t)
        Names(a, b) == \A k \in a..b : t[k].t = "name"
    IN  IF \E k \in 1..n : t[k].t = "bytes"
        THEN [kind |-> "UnicodeDecodeError", doc |-> EmptyState]
        ELSE IF t = <<Tok("{"), Tok("}")>>
        THEN [kind |-> "dict", doc |-> EmptyState]
        ELSE IF /\ n >= 5
                /\ t[1].t = "{" /\ t[2].t = "completed_ligands"
                /\ t[3].t = "[" /\ t[n - 1].t = "]" /\ t[n].t = "}"
                /\ Names(4, n - 2)
        THEN [kind |-> "dict",
              doc |-> [has |-> TRUE,
                       completed |-> [k \in 1..(n - 5) |-> t[k + 3].n]]]
        ELSE IF n >= 2 /\ t[1].t = "[" /\ t[n].t = "]" /\ Names(2, n - 1)
        THEN [kind |-> "list", doc |-> EmptyState]
        ELSE [kind |-> "JSONDecodeError", doc |-> EmptyState]

\* load_docking_state, lines 35-44, on the text: {} when the file is absent
\* or json.load raises JSONDecodeError (or IOError); any other exception
\* propagates; any value json.load returns is returned as it is.
ReadStateFile(f) ==
    IF ~f.exists
    THEN [raised |-> FALSE, kind |-> "dict", doc |-> EmptyState]
    ELSE LET r == json_load(f.text)
         IN  IF r.kind = "JSONDecodeError"
             THEN [raised |-> FALSE, kind |-> "dict", doc |-> EmptyState]
             ELSE IF r.kind = "UnicodeDecodeError"
             THEN [raised |-> TRUE, kind |-> "none", doc |-> EmptyState]
             ELSE [raised |-> FALSE, kind |-> r.kind, doc |-> r.doc]

\* Ledger dicts with a completed_ligands list of up to LedgerLen names
LedgerDocs ==
    {EmptyState} \cup
    {[has |-> TRUE, completed |-> q] :
        q \in UNION {[1..n -> Ligands] : n \in 0..LedgerLen}}

\* What STATE_FILE can hold when dock.py starts: a saved ledger, the
\* beginning of one (a save cut short), a JSON array, text that is not JSON,
\* bytes that are not text.
StateTexts ==
    {json_dump(s) : s \in LedgerDocs}
    \cup UNION {{SubSeq(json_dump(s), 1, n) : n \in 0..Len(json_dump(s))} :
                   s \in LedgerDocs}
    \cup {<<Tok("[")>> \o NameToks(s.completed) \o <<Tok("]")>> :
                   s \in LedgerDocs}
    \cup {<<Tok("garbage")>>, <<Tok("bytes")>>}

StateFiles ==
    {[exists |-> FALSE, text |-> <<>>]}
    \cup {[exists |-> TRUE, text |-> t] : t \in StateTexts}

nonLedger == <<dockVars, progress_counter, haltVars, fetchVars, runVars,
               unitVars, markVars, splitVars, toolVars>>

LedgerInit ==
    /\ DockInit
    /\ progress_counter = ZeroCounter
    /\ HaltIdle
    /\ FetchIdle
    /\ RunIdle(NumUnits)
    /\ UnitIdle
    /\ MarkIdle
    /\ SplitIdle
    /\ ToolIdle
    /\ lpc = "start"
    /\ ltext \in StateFiles
    /\ lin \in LedgerDocs
    /\ lsaved = FALSE
    /\ lout = [raised |-> FALSE, kind |-> "none", doc |-> EmptyState]
    /\ lstats = [raised |-> FALSE, counts |-> <<0, 0>>]

\* save_docking_state(state), lines 46-53, with no I/O error
LedgerSave ==
    /\ lpc = "start"
    /\ ltext' = [exists |-> TRUE, text |-> json_dump(lin)]
    /\ lsaved' = TRUE
    /\ lpc' = "saved"
    /\ UNCHANGED <<lin, lout, lstats>>

\* state = load_docking_state(), line 147
LedgerLoad ==
    /\ lpc \in {"start", "saved"}
    /\ lout' = ReadStateFile(ltext)
    /\ lpc' = "loaded"
    /\ UNCHANGED <<ltext, lin, lsaved, lstats>>

\* get_resume_stats(ligand_files, state), line 183: state.get(...) on what
\* was loaded, which raises AttributeError when that is not a dict
LedgerResume ==
    /\ lpc = "loaded"
    /\ ~lout.raised
    /\ lstats' = IF lout.kind = "dict"
                 THEN [raised |-> FALSE,
                       counts |-> get_resume_stats(Discovered, lout.doc)]
                 ELSE [raised |-> TRUE, counts |-> <<0, 0>>]
    /\ lpc' = "resumed"
    /\ UNCHANGED <<ltext, lin, lsaved, lout>>

LedgerNext ==
    \/ LedgerSave /\ UNCHANGED nonLedger
    \/ LedgerLoad /\ UNCHANGED nonLedger
    \/ LedgerResume /\ UNCHANGED nonLedger

SpecLedger == LedgerInit /\ [][LedgerNext]_vars

(***************************************************************************)
(* scripts/getdata.py: the splitter                                        *)
(***************************************************************************)

\* A line of a source file: its kind (MODEL, ENDMDL, the line
\* "REMARK  Name = <name>", any other line, or bytes that cannot be decoded),
\* the name it carries, and whether it has leading or trailing whitespace.
\* Names are numbered: 0 is the empty string, 1..NumStems are names of
\* letters and digits, NumStems + 1 is name 1 with a character in it that
\* is not alphanumeric and not one of "._-".
SrcLine(k, n, pad) == [k |-> k, n |-> n, pad |-> pad]

SrcLines ==
    {SrcLine("MODEL", 0, FALSE), SrcLine("ENDMDL", 0, FALSE),
     SrcLine("ATOM", 0, FALSE), SrcLine("ATOM", 0, TRUE),
     SrcLine("BAD", 0, FALSE)}
    \cup {SrcLine("NAME", c, FALSE) : c \in 0..(NumStems + 1)}

\* (mutation) a line kept with its whitespace
strip_kept(l) == l

\* line.strip(), line 378
strip(l) == [l EXCEPT !.pad = FALSE]

\* current_name = None (line 373) and current_name = <text> (line 394)
None == [some |-> FALSE, n |-> 0]

NameOf(c) == [some |-> TRUE, n |-> c]

\* "".join(c for c in filename if c.isalnum() or c in "._-"), line 323
sanitize(c) == IF c = NumStems + 1 THEN 1 ELSE c

\* get_tranche_name_from_filename, lines 292-300, for a file name that glob
\* ("*.pdbqt") returned: the name without ".pdbqt" if that still has a
\* dot in it, else "unknown_tranche".  A name is given by its first part and
\* by whether a second part follows ("X.xaa.pdbqt" or "X.pdbqt").
get_tranche_name_from_filename(fn) ==
    IF fn.dot THEN [k |-> "base", v |-> fn.base]
    ELSE [k |-> "unknown_tranche", v |-> 0]

\* clean_lines, lines 312-316
CleanLines(ml) ==
    SelectSeq(ml, LAMBDA l : strip(l).k \notin {"MODEL", "ENDMDL"})

\* zinc_id, lines 326-330: the name of the first name line of clean_lines,
\* 0 when there is none
ZincId(clean) ==
    LET at == {k \in 1..Len(clean) : clean[k].k = "NAME" /\ ~clean[k].pad}
    IN  IF at = {} THEN 0
        ELSE clean[CHOOSE k \in at : \A j \in at : k <= j].n

\* (mutation) a file name that is always the index
OutputNameByIndex(clean, name, index) == [k |-> "index", v |-> index]

\* filename, lines 319-335
OutputName(clean, name, index) ==
    IF name.some /\ name.n > 0
    THEN [k |-> "name", v |-> sanitize(name.n)]
    ELSE IF ZincId(clean) > 0
    THEN [k |-> "name", v |-> ZincId(clean)]
    ELSE [k |-> "index", v |-> index]

\* _save_molecule, lines 302-341, called for source file f with the lines
\* ml, which were read from lines from..to of f: nothing for an empty list,
\* else the file is written (an existing file of that path is replaced).
save_molecule(f, ml, name, tranche, index, from, to) ==
    IF ml = <<>>
    THEN UNCHANGED <<disk, swrites>>
    ELSE LET clean == CleanLines(ml)
             fn == OutputName(clean, name, index)
         IN  /\ disk' = {e \in disk : e.dir # tranche \/ e.file # fn}
                            \cup {[dir |-> tranche, file |-> fn,
                                   lines |-> clean]}
             /\ swrites' = Append(swrites,
                              [src |-> f, index |-> index, name |-> name,
                               dir |-> tranche, file |-> fn, lines |-> clean,
                               from |-> from, to |-> to])

\* All files of up to n lines
Contents(n) == UNION {[1..m -> SrcLines] : m \in 0..n}

\* Three records: one named, one unnamed, one unnamed and not terminated
ExampleLines ==
    <<SrcLine("MODEL", 0, FALSE), SrcLine("NAME", 1, FALSE),
      SrcLine("ATOM", 0, FALSE), SrcLine("ENDMDL", 0, FALSE),
      SrcLine("MODEL", 0, FALSE), SrcLine("ATOM", 0, FALSE),
      SrcLine("ENDMDL", 0, FALSE),
      SrcLine("MODEL", 0, FALSE), SrcLine("ATOM", 0, FALSE)>>

\* The second file of a two-file split: one named record
SecondLines == <<SrcLine("MODEL", 0, FALSE), SrcLine("NAME", 1, FALSE)>>

SourceNames == [base : 1..NumTranches, dot : BOOLEAN]

nonSplit == <<dockVars, progress_counter, haltVars, fetchVars, runVars,
              unitVars, markVars, ledgerVars, toolVars>>

\* split_pdbqt_files over the files srcs, lines 359-366 and 422-430, with
\* every file handed to a worker (lines 371-376; max_workers is 4)
SplitInitWith(srcs) ==
    /\ DockInit
    /\ progress_counter = ZeroCounter
    /\ HaltIdle
    /\ FetchIdle
    /\ RunIdle(NumUnits)
    /\ UnitIdle
    /\ MarkIdle
    /\ LedgerIdle
    /\ ToolIdle
    /\ spc = "running"
    /\ sources \in srcs
    /\ sstatus = [f \in DOMAIN sources |-> "running"]
    /\ spos = [f \in DOMAIN sources |-> 1]
    /\ current_molecule = [f \in DOMAIN sources |-> <<>>]
    /\ current_name = [f \in DOMAIN sources |-> None]
    /\ molecule_count = [f \in DOMAIN sources |-> 0]
    /\ sresult = [f \in DOMAIN sources |->
                    [count |-> 0, tranche |-> [k |-> "none", v |-> 0],
                     error |-> FALSE]]
    /\ disk = {}
    /\ total_molecules = 0
    /\ failed_files = 0
    /\ tranches_created = {}
    /\ sret = <<>>
    /\ swrites = <<>>

\* One file "1.x.pdbqt" or "1.pdbqt" with any content of up to SplitLen
\* lines, or with the lines of the example
SplitInit ==
    SplitInitWith({<<[name |-> [base |-> 1, dot |-> d], lines |-> c]>> :
                     d \in BOOLEAN, c \in Contents(SplitLen) \cup {ExampleLines}})

\* Two files of different names
PairInit ==
    SplitInitWith({<<[name |-> q[1], lines |-> q[3]],
                     [name |-> q[2], lines |-> SecondLines]>> :
                     q \in {r \in SourceNames \X SourceNames \X Contents(PairLen) :
                               r[1] # r[2]}})

\* split_single_pdbqt, lines 377-409: one turn of the loop over the lines
\* of source file f.  Reading undecodable bytes raises, and the handler of
\* lines 419-420 returns (name, 0, "unknown", message).
SplitLine(f) ==
    /\ spc = "running"
    /\ sstatus[f] = "running"
    /\ spos[f] <= Len(sources[f].lines)
    /\ LET at == spos[f]
           raw == sources[f].lines[at]
           line == strip(raw)
           cm == current_molecule[f]
           tranche == get_tranche_name_from_filename(sources[f].name)
       IN  IF raw.k = "BAD"
           THEN /\ sstatus' = [sstatus EXCEPT ![f] = "done"]
                /\ sresult' = [sresult EXCEPT ![f] =
                                  [count |-> 0,
                                   tranche |-> [k |-> "unknown", v |-> 0],
                                   error |-> TRUE]]
                /\ UNCHANGED <<spos, current_molecule, current_name,
                               molecule_count, disk, swrites>>
           ELSE /\ spos' = [spos EXCEPT ![f] = at + 1]
                /\ UNCHANGED <<sstatus, sresult>>
                /\ CASE line.k = "MODEL" ->
                          /\ save_molecule(f, cm, current_name[f], tranche,
                                           molecule_count[f],
                                           at - Len(cm), at - 1)
                          /\ molecule_count' =
                                [molecule_count EXCEPT ![f] =
                                    IF cm # <<>> THEN @ + 1 ELSE @]
                          /\ current_molecule' =
                                [current_molecule EXCEPT ![f] = <<line>>]
                          /\ current_name' = [current_name EXCEPT ![f] = None]
                     [] line.k = "NAME" ->
                          /\ current_name' =
                                [current_name EXCEPT ![f] = NameOf(line.n)]
                          /\ current_molecule' =
                                [current_molecule EXCEPT ![f] = Append(cm, line)]
                          /\ UNCHANGED <<molecule_count, disk, swrites>>
                     [] line.k = "ENDMDL" ->
                          /\ save_molecule(f, Append(cm, line), current_name[f],
                                           tranche, molecule_count[f],
                                           at - Len(cm), at)
                          /\ molecule_count' =
                                [molecule_count EXCEPT ![f] = @ + 1]
                          /\ current_molecule' =
                                [current_molecule EXCEPT ![f] = <<>>]
                          /\ current_name' = [current_name EXCEPT ![f] = None]
                     [] OTHER ->
                          /\ current_molecule' =
                                [current_molecule EXCEPT ![f] =
                                    IF cm # <<>> THEN Append(cm, line) ELSE cm]
                          /\ UNCHANGED <<current_name, molecule_count, disk,
                                         swrites>>
    /\ UNCHANGED <<spc, sources, total_molecules, failed_files,
                   tranches_created, sret>>

\* split_single_pdbqt, lines 411-417: the lines are exhausted; an open
\* record is saved and the tuple is returned.
SplitEnd(f) ==
    /\ spc = "running"
    /\ sstatus[f] = "running"
    /\ spos[f] > Len(sources[f].lines)
    /\ LET cm == current_molecule[f]
           n == Len(sources[f].lines)
           tranche == get_tranche_name_from_filename(sources[f].name)
       IN  /\ save_molecule(f, cm, current_name[f], tranche,
                            molecule_count[f], n - Len(cm) + 1, n)
           /\ molecule_count' = [molecule_count EXCEPT ![f] =
                                    IF cm # <<>> THEN @ + 1 ELSE @]
           /\ sresult' = [sresult EXCEPT ![f] =
                             [count |-> molecule_count'[f],
                              tranche |-> tranche, error |-> FALSE]]
    /\ sstatus' = [sstatus EXCEPT ![f] = "done"]
    /\ UNCHANGED <<spc, sources, spos, current_molecule, current_name,
                   total_molecules, failed_files, tranches_created, sret>>

\* split_pdbqt_files, lines 433-442: the result of a finished future is
\* added to the totals.
SplitCollect(f) ==
    /\ spc = "running"
    /\ sstatus[f] = "done"
    /\ sstatus' = [sstatus EXCEPT ![f] = "collected"]
    /\ IF sresult[f].error
       THEN /\ failed_files' = failed_files + 1
            /\ UNCHANGED <<total_molecules, tranches_created>>
       ELSE /\ total_molecules' = total_molecules + sresult[f].count
            /\ tranches_created' = tranches_created \cup {sresult[f].tranche}
            /\ UNCHANGED failed_files
    /\ UNCHANGED <<spc, sources, spos, current_molecule, current_name,
                   molecule_count, sresult, disk, sret, swrites>>

\* split_pdbqt_files, line 449
SplitReturn ==
    /\ spc = "running"
    /\ \A f \in DOMAIN sources : sstatus[f] = "collected"
    /\ sret' = <<total_molecules, failed_files, Cardinality(tranches_created)>>
    /\ spc' = "returned"
    /\ UNCHANGED <<sources, sstatus, spos, current_molecule, current_name,
                   molecule_count, sresult, disk, total_molecules,
                   failed_files, tranches_created, swrites>>

SplitNext ==
    \/ \E f \in DOMAIN sources : SplitLine(f) /\ UNCHANGED nonSplit
    \/ \E f \in DOMAIN sources : SplitEnd(f) /\ UNCHANGED nonSplit
    \/ \E f \in DOMAIN sources : SplitCollect(f) /\ UNCHANGED nonSplit
    \/ SplitReturn /\ UNCHANGED nonSplit

SpecSplit == SplitInit /\ [][SplitNext]_vars

SpecSplitPair == PairInit /\ [][SplitNext]_vars

(***************************************************************************)
(* scripts/see_results.py: the score parser                                *)
(***************************************************************************)

\* A line of a docked-output file: a line that starts with
\* "REMARK VINA RESULT:" (with nf whitespace-separated fields, the fourth
\* being the text of the number v or a text that is no number), a line that
\* starts with MODEL, ENDMDL, any other line, or bytes that cannot be
\* decoded.
OutLine(k, nf, num, v) == [k |-> k, nf |-> nf, num |-> num, v |-> v]

OutLines ==
    {OutLine("RESULT", 6, TRUE, v) : v \in 1..NumScores}
    \cup {OutLine("RESULT", 3, FALSE, 0), OutLine("RESULT", 6, FALSE, 0),
          OutLine("MODEL", 2, FALSE, 0), OutLine("ENDMDL", 1, FALSE, 0),
          OutLine("ATOM", 6, FALSE, 0), OutLine("BAD", 1, FALSE, 0)}

\* Two MODEL/ENDMDL blocks with one score line each
ExampleScores ==
    <<OutLine("MODEL", 2, FALSE, 0), OutLine("RESULT", 6, TRUE, 1),
      OutLine("ENDMDL", 1, FALSE, 0),
      OutLine("MODEL", 2, FALSE, 0), OutLine("RESULT", 6, TRUE, 2),
      OutLine("ENDMDL", 1, FALSE, 0)>>

OutFiles ==
    UNION {[1..m -> OutLines] : m \in 0..ParseLen} \cup {ExampleScores}

\* (mutation) mode numbers that start at 0
AssignModesFromZero(sc) ==
    [k \in 1..Len(sc) |->
        IF sc[k].has_mode THEN sc[k]
        ELSE [sc[k] EXCEPT !.has_mode = TRUE, !.mode = k - 1]]

\* Lines 41-43 and 53-55: every entry without a mode gets its position in
\* the list, counted from 1
AssignModes(sc) ==
    [k \in 1..Len(sc) |->
        IF sc[k].has_mode THEN sc[k]
        ELSE [sc[k] EXCEPT !.has_mode = TRUE, !.mode = k]]

nonParse == <<dockVars, progress_counter, haltVars, fetchVars, runVars,
              unitVars, markVars, ledgerVars, splitVars, singleVars>>

ParseInit ==
    /\ DockInit
    /\ progress_counter = ZeroCounter
    /\ HaltIdle
    /\ FetchIdle
    /\ RunIdle(NumUnits)
    /\ UnitIdle
    /\ MarkIdle
    /\ LedgerIdle
    /\ SplitIdle
    /\ SingleIdle
    /\ ppc = "reading"
    /\ plines \in OutFiles
    /\ ppos = 1
    /\ scores = <<>>
    /\ presult = <<>>

\* One turn of the loop of lines 26-43.  A score line with at least 4 fields
\* whose fourth field float() accepts appends an entry; ValueError is
\* caught (lines 37-38); any other exception of the read ends the function
\* with [] (lines 48-50).
ParseLine ==
    /\ ppc = "reading"
    /\ ppos <= Len(plines)
    /\ LET line == plines[ppos]
       IN  IF line.k = "BAD"
           THEN /\ presult' = <<>>
                /\ ppc' = "returned"
                /\ UNCHANGED <<ppos, scores>>
           ELSE /\ ppos' = ppos + 1
                /\ UNCHANGED <<ppc, presult>>
                /\ scores' =
                      IF line.k = "RESULT"
                      THEN IF line.nf >= 4 /\ line.num
                           THEN Append(scores, [affinity |-> line.v,
                                                has_mode |-> FALSE,
                                                mode |-> 0])
                           ELSE scores
                      ELSE IF line.k = "MODEL" /\ scores # <<>>
                      THEN AssignModes(scores)
                      ELSE scores
    /\ UNCHANGED plines

\* Lines 52-57: the loop is over, the modes not yet set are set and the
\* list is returned.
ParseEnd ==
    /\ ppc = "reading"
    /\ ppos > Len(plines)
    /\ presult' = AssignModes(scores)
    /\ ppc' = "returned"
    /\ UNCHANGED <<plines, ppos, scores>>

ParseNext ==
    \/ ParseLine /\ UNCHANGED nonParse
    \/ ParseEnd /\ UNCHANGED nonParse

SpecParse == ParseInit /\ [][ParseNext]_vars

(***************************************************************************)
(* scripts/dock_single.py                                                  *)
(***************************************************************************)

nonSingle == <<dockVars, progress_counter, haltVars, fetchVars, runVars,
               unitVars, markVars, ledgerVars, splitVars, parseVars>>

\* run_single_unidock is called for one ligand, with any files in the
\* output directory
SingleInit ==
    /\ DockInit
    /\ progress_counter = ZeroCounter
    /\ HaltIdle
    /\ FetchIdle
    /\ RunIdle(NumUnits)
    /\ UnitIdle
    /\ MarkIdle
    /\ LedgerIdle
    /\ SplitIdle
    /\ ParseIdle
    /\ dpc = "start"
    /\ dligand \in Ligands
    /\ dout \in [1..NumBases -> {"missing", "empty", "nonempty"}]
    /\ dcode = "none"
    /\ dret = 0
    /\ dcalls = 0

\* Lines 18-26: the output <base>_out.pdbqt exists and is not empty, and
\* the function returns 0 without a command
SingleSkip ==
    /\ dpc = "start"
    /\ dout[Base(dligand)] = "nonempty"
    /\ dret' = 0
    /\ dpc' = "returned"
    /\ UNCHANGED <<dligand, dout, dcode, dcalls>>

\* Lines 28-43: the command is built
SingleCommand ==
    /\ dpc = "start"
    /\ dout[Base(dligand)] # "nonempty"
    /\ dpc' = "invoke"
    /\ UNCHANGED <<dligand, dout, dcode, dret, dcalls>>

\* Lines 44-54: subprocess.run(command, check=True) ends.  Exit code zero
\* returns 0 (line 49), CalledProcessError returns 1 (line 54), a missing
\* executable raises FileNotFoundError, which is not caught.
SingleEngine ==
    /\ dpc = "invoke"
    /\ dcalls' = dcalls + 1
    /\ \E code \in {"zero", "nonzero", "notfound"} :
          /\ dcode' = code
          /\ IF code = "notfound"
             THEN dout' = dout
             ELSE \E o \in {dout[Base(dligand)], "empty", "nonempty"} :
                     dout' = [dout EXCEPT ![Base(dligand)] = o]
          /\ CASE code = "zero" -> dret' = 0 /\ dpc' = "returned"
               [] code = "nonzero" -> dret' = 1 /\ dpc' = "returned"
               [] code = "notfound" -> dret' = dret /\ dpc' = "raised"
    /\ UNCHANGED dligand

SingleNext ==
    \/ SingleSkip /\ UNCHANGED nonSingle
    \/ SingleCommand /\ UNCHANGED nonSingle
    \/ SingleEngine /\ UNCHANGED nonSingle

SpecSingle == SingleInit /\ [][SingleNext]_vars

Init ==
    /\ DockInit
    /\ progress_counter = ZeroCounter
    /\ HaltIdle
    /\ FetchIdle
    /\ RunIdle(NumUnits)
    /\ UnitIdle
    /\ RestIdle

nonDock == <<progress_counter, haltVars, fetchVars, runVars, unitVars,
             restVars>>

Next ==
    \/ Start /\ UNCHANGED nonDock
    \/ Invoke /\ UNCHANGED nonDock
    \/ EngineExit /\ UNCHANGED nonDock
    \/ Record /\ UNCHANGED nonDock
    \/ SaveOpen /\ UNCHANGED nonDock
    \/ SaveWrite /\ UNCHANGED nonDock
    \/ Interrupt /\ UNCHANGED nonDock
    \/ InterruptOutsideTry /\ UNCHANGED nonDock
    \/ Kill /\ UNCHANGED nonDock
    \/ reset_docking_state /\ UNCHANGED nonDock

Spec == Init /\ [][Next]_vars

\* The runs of dock.py, those that stop at the validation of the inputs
\* included
MainNext ==
    \/ Next
    \/ MainSetupError /\ UNCHANGED nonDock

SpecMain == Init /\ [][MainNext]_vars

(***************************************************************************)
(* Properties of the docking dispatcher and its ledger                     *)
(***************************************************************************)

\* a save_docking_state call is between its open and the end of its write
SaveInProgress == pc \in {"save_open", "save_write"}

\* the expected output of l in the mode of the current run holds data
OutputPresent(l) ==
    out[<<Base(l), IF Len(ligand_files) > 1 THEN "out" ELSE "docked">>]
        = "nonempty"

\* C1: with no reset, an identity that was once persisted in
\* completed_ligands is in the ledger that load_docking_state returns at
\* every later point between operations (here: in behaviours in which no run
\* was interrupted or killed, so that only load, mark, save and run_unidock
\* have acted).
C1_CompletedNeverRemoved ==
    (~crashed /\ ~SaveInProgress)
        => everPersisted \subseteq CompletedOf(load_docking_state(file))

\* C2: after a run was killed or interrupted, the ledger returned by the next
\* load_docking_state holds every identity that was persisted when that run
\* began (here: in runs in which no write failed with an I/O error).
C2_InterruptKeepsPersisted ==
    (pc \in {"killed", "interrupted"} /\ ~ioFailed)
        => persistedAtStart \subseteq CompletedOf(load_docking_state(file))

\* C3: the engine is never invoked over a ligand that the ledger marks
\* completed, nor over a ligand whose expected output artifact already
\* exists with non-zero size.
C3_NoDispatchOfDoneLigands ==
    pc = "invoke" =>
        \A l \in Range(ligand_files) :
            /\ l \notin CompletedOf(state)
            /\ ~OutputPresent(l)

\* C4: a ligand is counted successful and marked completed by a run only if
\* the engine exited with code zero and the ligand's expected output exists
\* with non-zero size; after a zero exit a ligand whose output is missing or
\* empty is counted failed and is not in the ledger.
C4_SuccessNeedsZeroExitAndArtifact ==
    /\ successful_dockings = Cardinality(found)
    /\ CompletedOf(state) \ persistedAtStart = found
    /\ \A l \in found : exitcode = "zero" /\ OutputPresent(l)
    /\ (pc = "returned" /\ exitcode = "zero") =>
          /\ \A l \in Range(ligand_files) :
                ~OutputPresent(l) => l \notin CompletedOf(state)
          /\ failed_dockings =
                Cardinality({l \in Range(ligand_files) : ~OutputPresent(l)})

\* a run returned after a zero exit with one ligand successful and another
\* one failed on an empty output
C4_Witness ==
    /\ pc = "returned"
    /\ exitcode = "zero"
    /\ found # {}
    /\ \E l \in Range(ligand_files) :
          /\ out[<<Base(l), "out">>] = "empty"
          /\ l \notin CompletedOf(state)

\* C5 as stated: in batch mode, whatever the exit code of the engine, a
\* ligand whose expected output exists with non-zero size is counted
\* successful and marked completed, and any other ligand is counted failed.
C5_ArtifactAloneDecides ==
    (pc = "returned" /\ Len(ligand_files) > 1
        /\ exitcode \in {"zero", "nonzero"}) =>
        /\ \A l \in Range(ligand_files) :
              OutputPresent(l) <=> l \in CompletedOf(state)
        /\ successful_dockings =
              Cardinality({l \in Range(ligand_files) : OutputPresent(l)})

\* C5 (amended): in batch mode, after the engine exited with code zero each
\* ligand's outcome is decided by its expected output alone; after a non-zero
\* exit every ligand of the batch is counted failed and none is marked,
\* whatever outputs exist.
C5_ArtifactDecidesAfterZeroExit ==
    (pc = "returned" /\ Len(ligand_files) > 1) =>
        /\ exitcode = "zero" =>
              /\ \A l \in Range(ligand_files) :
                    OutputPresent(l) <=> l \in CompletedOf(state)
              /\ successful_dockings =
                    Cardinality({l \in Range(ligand_files) : OutputPresent(l)})
              /\ failed_dockings =
                    Cardinality({l \in Range(ligand_files) : ~OutputPresent(l)})
        /\ exitcode = "nonzero" =>
              /\ successful_dockings = 0
              /\ failed_dockings = Len(ligand_files)
              /\ CompletedOf(state) = persistedAtStart

\* a batch run returned after a non-zero exit although an output exists
C5_Witness ==
    /\ pc = "returned"
    /\ Len(ligand_files) > 1
    /\ exitcode = "nonzero"
    /\ \E l \in Range(ligand_files) : OutputPresent(l)

\* C6: when run_unidock returns after an engine invocation, every ligand it
\* found successful is in completed_ligands and save_docking_state has been
\* called with the ledger that holds it.
C6_SuccessesMarkedAndSaved ==
    (pc = "returned" /\ exitcode # "none") =>
        \A l \in found :
            /\ l \in CompletedOf(state)
            /\ saveArg.called
            /\ saveArg.arg = state

\* run_unidock returned with a newly successful ligand
C6_Witness ==
    /\ pc = "returned"
    /\ exitcode = "zero"
    /\ found # {}
    /\ saveArg.called

\* C7: an interruption caught inside the try block makes run_unidock call
\* save_docking_state with the ledger holding the completions determined so
\* far and then re-raise: the run never returns a value, and when no write
\* fails the state file holds that ledger once the interruption propagates.
C7_InterruptSavesThenPropagates ==
    savectx = "handler" =>
        /\ pc \in {"save_open", "save_write", "interrupted", "killed"}
        /\ ret = <<>>
        /\ saveArg.called
        /\ saveArg.arg = state
        /\ found \subseteq CompletedOf(saveArg.arg)
        /\ (pc = "interrupted" /\ ~ioFailed) => file = DocFile(state)

\* the interruption arrived in the per-ligand loop after a completion was
\* recorded, and has propagated with the ledger saved
C7_Witness ==
    /\ savectx = "handler"
    /\ pc = "interrupted"
    /\ exitcode = "zero"
    /\ found # {}
    /\ file = DocFile(state)

\* C8: whatever the outcome of the engine invocation, run_unidock raises no
\* exception.
C8_NoExceptionFromEngineOutcome ==
    pc # "raised"

(***************************************************************************)
(* Properties of the failure-rate monitor                                  *)
(***************************************************************************)

\* the three halt conditions, on the counters the call was made with
ConsecutiveCond == progress_counter.consecutive_failures >= 10
RateCond ==
    /\ progress_counter.total_processed >= 50
    /\ 5 * progress_counter.failed > progress_counter.total_processed
DebugCond == hdebug /\ progress_counter.consecutive_failures >= 5

\* C9: should_halt_download reports halt exactly when consecutive_failures
\* >= 10, or total_processed >= 50 and failed / total_processed > 0.20, or
\* debug mode is on and consecutive_failures >= 5; the reason it returns is
\* that of the first of these conditions, in this order, that holds.
C9_HaltExactlyOnThresholds ==
    hresult # <<>> =>
        /\ hresult[1] <=> (ConsecutiveCond \/ RateCond \/ DebugCond)
        /\ hresult[2] = "consecutive failures" <=> ConsecutiveCond
        /\ hresult[2] = "failure rate" <=> (~ConsecutiveCond /\ RateCond)
        /\ hresult[2] = "debug halt" <=>
              (~ConsecutiveCond /\ ~RateCond /\ DebugCond)

\* 11 failures out of 50 with a success just before the call: halted on the
\* failure rate alone
C9_Witness ==
    /\ hresult = <<TRUE, "failure rate">>
    /\ progress_counter.total_processed = 50
    /\ progress_counter.failed = 11
    /\ progress_counter.consecutive_failures = 0

(***************************************************************************)
(* Properties of the fetch executor                                        *)
(***************************************************************************)

\* C11: in a run, once total_processed >= 50 and failed / total_processed >
\* 0.20 hold on the counters and the run has not halted yet, no further
\* outcome is recorded in the counters: the halt comes first.
C11_RateHaltBeforeNextOutcome ==
    [][(RateCond /\ ~halted) => progress_counter' = progress_counter]_vars

\* C10: a run in which 10 failures were reported to the counters with no
\* success between them has halted by the time it returns.
C10_TenFailuresHalt ==
    (fpc = "done" /\ sawLimit) => halted

\* A pool thread takes a queued future and begins its download
UnitStarts ==
    /\ queued' = queued - 1
    /\ attempting'[0] = attempting[0] + 1

\* C12: once a halt check of the run has returned True, no unit that was
\* still queued is started: the queued futures are cancelled on the result
\* path and on the exception path alike, and no pool thread begins a new
\* download.
C12_NoStartAfterHalt ==
    [][halted => ~UnitStarts]_vars

\* Pool threads inside download_zinc_subset
InFlight ==
    \/ \E k \in 0..3 : attempting[k] > 0
    \/ returning.ok > 0
    \/ returning.fail > 0

\* Futures that have finished, collected or not
Finished ==
    downloaded_files_count + failed_downloads_count + doneOk + doneFail
        + doneExc

RunJustStarted ==
    /\ fpc = "collect"
    /\ queued = nurls
    /\ ~InFlight
    /\ Finished = 0

\* C14: outside the critical sections of download_lock (every state of the
\* model: a counter update is one step), completed + failed equals
\* total_processed, in every call of download_all_from_uri_file of the
\* process.
C14_CountersAddUp ==
    progress_counter.completed + progress_counter.failed
        = progress_counter.total_processed

\* C15: when a call of download_all_from_uri_file begins its download
\* phase, completed, failed, consecutive_failures and total_processed are
\* all zero.
C15_CountersZeroAtRunStart ==
    RunJustStarted =>
        /\ progress_counter.completed = 0
        /\ progress_counter.failed = 0
        /\ progress_counter.consecutive_failures = 0
        /\ progress_counter.total_processed = 0

\* C16: when every started unit of the (first) call has finished, the
\* counters have been updated once per finished unit: total_processed is
\* the number of finished units.
C16_OneUpdatePerFinishedUnit ==
    (priorCalls = 0 /\ fpc = "done") =>
        progress_counter.total_processed = Finished

\* C19: a permanent failure does not stop the run by itself: the run
\* always comes to its return, and when no halt check has returned True it
\* returns with every URL of the list reported, as a success or as a
\* failure: the two counts it returns add up to the number of URLs.
C19_UnhaltedRunReportsEveryUnit ==
    /\ <>(fpc = "done")
    /\ []((fpc = "done" /\ ~halted) =>
            /\ downloaded_files_count + failed_downloads_count = nurls
            /\ cancelled = 0)

\* A run that returned without a halt, with failures and successes
C19_Witness ==
    /\ fpc = "done"
    /\ ~halted
    /\ failed_downloads_count >= 2
    /\ downloaded_files_count >= 2
    /\ progress_counter.failed >= 2

(***************************************************************************)
(* Properties of one call of download_zinc_subset                          *)
(***************************************************************************)

\* The first of the first four calls that does not end in a transient
\* error, 0 when all four do
FirstSettled ==
    IF \A j \in 1..4 : script[j] = "transient" THEN 0
    ELSE CHOOSE j \in 1..4 :
            /\ script[j] # "transient"
            /\ \A h \in 1..(j - 1) : script[h] = "transient"

\* C17: a unit is never attempted more than 4 times; when all of its
\* attempts fail with a transient error it is attempted exactly 4 times and
\* then reported as a permanent failure; when attempt k <= 4 is the first
\* that succeeds it is attempted exactly k times and reported as a success;
\* and every unit ends.
C17_FourAttemptsAtMost ==
    /\ [](attempts <= 4)
    /\ [](upc = "returned" =>
            /\ FirstSettled = 0 =>
                  attempts = 4 /\ uresult = <<"None">>
                      /\ progress_counter.failed = 1
            /\ (FirstSettled # 0 /\ script[FirstSettled] = "ok") =>
                  attempts = FirstSettled /\ uresult = <<"filepath">>
                      /\ progress_counter.completed = 1
            /\ progress_counter.total_processed = 1
            /\ ucounted = 1)
    /\ <>(upc \in {"returned", "raised"})

\* Four transient errors in a row: four attempts, then a permanent failure
C17_Witness ==
    /\ upc = "returned"
    /\ \A j \in 1..4 : script[j] = "transient"
    /\ attempts = 4
    /\ uresult = <<"None">>
    /\ progress_counter.failed = 1

(***************************************************************************)
(* Properties of repeated fetch runs                                       *)
(***************************************************************************)

\* C18: in a call of download_all_from_uri_file that follows a call in which
\* every URL of the same list was downloaded (the destination files are in
\* place), no transfer is attempted: every unit is skipped.
C18_RerunTransfersNothing ==
    (priorCalls > 0 /\ prevAllOk) => \A k \in 0..3 : attempting[k] = 0

(***************************************************************************)
(* Properties of mark_ligand_completed                                     *)
(***************************************************************************)

\* Entries of the list q that are the name l
Entries(q, l) == Cardinality({k \in 1..Len(q) : q[k] = l})

\* C20: marking an identity a second time changes nothing: the ledger after
\* two marks is the ledger after one, the identity is in it, and the first
\* mark adds an entry only when the identity had none.
C20_MarkIdempotent ==
    /\ mpc = "once" =>
          /\ mstate.has
          /\ Entries(mstate.completed, mname) =
                IF Entries(mbefore.completed, mname) = 0 THEN 1
                ELSE Entries(mbefore.completed, mname)
    /\ mpc = "twice" =>
          /\ mstate = mbefore
          /\ Entries(mstate.completed, mname) >= 1

\* Marked twice starting from a ledger the name was not in
C20_Witness ==
    /\ mpc = "twice"
    /\ mname = 1
    /\ mstate.completed = <<2, 3, 1>>

\* C23: after dock.py --reset the state file loads as the empty ledger,
\* whatever it held before, and the reset run neither invoked the engine nor
\* touched a docked output: it goes from a finished process straight to its
\* exit, with every output as it was.
C23_ResetDiscardsLedger ==
    /\ [](pc = "reset" =>
            /\ load_docking_state(file) = EmptyState
            /\ file.kind = "absent"
            /\ exitcode = "none")
    /\ [][pc' = "reset" => (pc \in Terminal /\ out' = out)]_vars

\* A reset after a run that left docked outputs and had persisted a ledger
C23_Witness ==
    /\ pc = "reset"
    /\ runs > 0
    /\ \E p \in OutPaths : out[p] = "nonempty"
    /\ file.kind = "absent"

\* C24: an I/O error of the save never leaves run_unidock as an exception:
\* the run returns its counts and the in-memory ledger still holds every
\* ligand found docked; and a run never skips a ligand whose completion was
\* never persisted.
C24_SaveErrorNonFatal ==
    /\ ioFailed => pc \in {"returned", "interrupted"}
    /\ (ioFailed /\ savectx = "normal") =>
          /\ pc = "returned"
          /\ ret = <<successful_dockings + completed_count, failed_dockings>>
          /\ found \subseteq CompletedOf(state)
    /\ (runs > 0 /\ pc \notin {"idle", "reset"}) =>
          \A k \in 1..NumLigands :
              (\A j \in 1..Len(ligand_files) : ligand_files[j] # Discovered[k])
                  => Discovered[k] \in everPersisted

\* A run whose save failed returned with ligands docked, and the next run
\* docks them again
C24_Witness ==
    /\ pc = "returned"
    /\ ioFailed
    /\ found # {}
    /\ CompletedOf(load_docking_state(file)) = {}

(***************************************************************************)
(* Properties of the state file                                            *)
(***************************************************************************)

\* The state file is there and holds a ledger document
IsLedgerText(f) ==
    /\ f.exists
    /\ \E s \in LedgerDocs :
          f.text = IF ~s.has THEN <<Tok("{"), Tok("}")>>
                   ELSE <<Tok("{"), Tok("completed_ligands"), Tok("[")>>
                           \o NameToks(s.completed) \o <<Tok("]"), Tok("}")>>

\* C21: a ledger that was saved (without failure) and is then loaded comes
\* back with the same set of completed ligands; a state file that does not
\* exist loads as the empty ledger.
C21_SaveLoadRoundTrip ==
    lpc \in {"loaded", "resumed"} =>
        /\ lsaved =>
              /\ ~lout.raised
              /\ lout.kind = "dict"
              /\ CompletedOf(lout.doc) = CompletedOf(lin)
        /\ ~ltext.exists =>
              /\ ~lout.raised
              /\ lout.kind = "dict"
              /\ lout.doc = EmptyState

\* Two names saved and loaded back
C21_Witness ==
    /\ lpc = "loaded"
    /\ lsaved
    /\ lin.completed = <<2, 1>>
    /\ CompletedOf(lout.doc) = {1, 2}

\* C22: when the state file is absent or is not a ledger document (text
\* that does not parse, a ledger cut short, or JSON that is not a ledger),
\* load_docking_state raises nothing and returns the empty ledger, and the
\* run goes on with every ligand counted as not completed.
C22_CorruptLoadsAsEmpty ==
    (~lsaved /\ ~IsLedgerText(ltext)) =>
        /\ lpc \in {"loaded", "resumed"} =>
              /\ ~lout.raised
              /\ lout.kind = "dict"
              /\ lout.doc = EmptyState
        /\ lpc = "resumed" =>
              /\ ~lstats.raised
              /\ lstats.counts = <<0, NumLigands>>

(***************************************************************************)
(* Properties of the splitter                                              *)
(***************************************************************************)

\* The lines of source file f from line a to line b
SourceSpan(f, a, b) == SubSeq(sources[f].lines, a, b)

\* A file made of records only: it starts with MODEL, every ENDMDL is
\* followed by MODEL or by the end of the file, and every line can be read
WellFormed(L) ==
    /\ \A k \in 1..Len(L) : L[k].k # "BAD"
    /\ \A k \in 1..Len(L) :
          (k = 1 \/ L[k - 1].k = "ENDMDL") => L[k].k = "MODEL"

\* The number of records of a well-formed file
RecordCount(L) == Cardinality({k \in 1..Len(L) : L[k].k = "MODEL"})

\* C25: when a file of records R0..Rk-1 (the last one possibly without its
\* ENDMDL) has been split, its tranche directory holds exactly one file per
\* record, and each file is named by a record's name or by the 0-based
\* position of a record.
C25_OneFilePerRecord ==
    (spc = "returned" /\ Len(sources) = 1 /\ WellFormed(sources[1].lines)) =>
        /\ Cardinality(disk) = RecordCount(sources[1].lines)
        /\ \A e \in disk :
              /\ e.dir = get_tranche_name_from_filename(sources[1].name)
              /\ e.file.k = "index" =>
                    e.file.v < RecordCount(sources[1].lines)

\* C26 (as stated): no line of a written file is a MODEL or ENDMDL line, and
\* the file holds every other line of its record unchanged and in order.
C26_LinesUnchanged ==
    /\ \A e \in disk : \A k \in 1..Len(e.lines) :
          e.lines[k].k \notin {"MODEL", "ENDMDL"}
    /\ \A j \in 1..Len(swrites) :
          swrites[j].lines =
              SelectSeq(SourceSpan(swrites[j].src, swrites[j].from,
                                   swrites[j].to),
                        LAMBDA l : l.k \notin {"MODEL", "ENDMDL"})

\* C26 (amended): no line of a written file is a MODEL or ENDMDL line, and
\* the file holds every other line of its record in order, each without its
\* leading and trailing whitespace.
C26_LinesStripped ==
    /\ \A e \in disk : \A k \in 1..Len(e.lines) :
          e.lines[k].k \notin {"MODEL", "ENDMDL"}
    /\ \A j \in 1..Len(swrites) :
          LET span == SourceSpan(swrites[j].src, swrites[j].from,
                                 swrites[j].to)
          IN  swrites[j].lines =
                  SelectSeq([k \in 1..Len(span) |->
                                [span[k] EXCEPT !.pad = FALSE]],
                            LAMBDA l : l.k \notin {"MODEL", "ENDMDL"})
    /\ \A e \in disk : \E j \in 1..Len(swrites) :
          /\ swrites[j].dir = e.dir
          /\ swrites[j].file = e.file
          /\ swrites[j].lines = e.lines

\* A record with MODEL, a name line, a line with surrounding whitespace and
\* ENDMDL has been written
C26_Witness ==
    /\ spc = "returned"
    /\ \E j \in 1..Len(swrites) :
          /\ swrites[j].to - swrites[j].from = 3
          /\ sources[swrites[j].src].lines[swrites[j].from + 2].pad
          /\ Len(swrites[j].lines) = 2
          /\ \E e \in disk : e.lines = swrites[j].lines

\* C27: the file name of every written record is the record's name with
\* the characters other than alphanumerics and "._-" removed, when a name
\* was extracted; else the name of the first name line in the body; else
\* the index of the record in its source file; and the indices of the
\* records of one source file are all different.
C27_NamePriority ==
    /\ \A j \in 1..Len(swrites) :
          LET w == swrites[j]
              span == SourceSpan(w.src, w.from, w.to)
              at == {k \in 1..Len(span) : span[k].k = "NAME"}
              last == IF at = {} THEN 0
                      ELSE span[CHOOSE k \in at : \A m \in at : m <= k].n
              first == IF at = {} THEN 0
                       ELSE span[CHOOSE k \in at : \A m \in at : k <= m].n
          IN  w.file =
                IF last > 0
                THEN [k |-> "name",
                      v |-> IF last = NumStems + 1 THEN 1 ELSE last]
                ELSE IF first > 0
                THEN [k |-> "name", v |-> first]
                ELSE [k |-> "index", v |-> w.index]
    /\ \A j1 \in 1..Len(swrites) : \A j2 \in 1..Len(swrites) :
          (j1 < j2 /\ swrites[j1].src = swrites[j2].src)
              => swrites[j1].index < swrites[j2].index

\* The example file has been split: its first record is written under its
\* name, the two unnamed ones under the indices 1 and 2
C27_Witness ==
    /\ spc = "returned"
    /\ sources[1].lines = ExampleLines
    /\ Len(swrites) = 3
    /\ swrites[1].file = [k |-> "name", v |-> 1]
    /\ swrites[2].file = [k |-> "index", v |-> 1]
    /\ swrites[3].file = [k |-> "index", v |-> 2]

\* C28: no two records are written to the same path.
C28_NoSharedPath ==
    (\A f \in DOMAIN sources : WellFormed(sources[f].lines)) =>
        \A j1 \in 1..Len(swrites) : \A j2 \in 1..Len(swrites) :
            j1 < j2 =>
                \/ swrites[j1].dir # swrites[j2].dir
                \/ swrites[j1].file # swrites[j2].file

\* C29: every record is written in the directory named by the source file's
\* name without the .pdbqt suffix, and records of source files of different
\* names are never written in the same directory.
C29_TrancheIsBaseName ==
    /\ \A j \in 1..Len(swrites) :
          LET fn == sources[swrites[j].src].name
          IN  swrites[j].dir =
                  IF fn.dot THEN [k |-> "base", v |-> fn.base]
                  ELSE [k |-> "plain", v |-> fn.base]
    /\ \A j1 \in 1..Len(swrites) : \A j2 \in 1..Len(swrites) :
          sources[swrites[j1].src].name # sources[swrites[j2].src].name
              => swrites[j1].dir # swrites[j2].dir

\* C30: split_pdbqt_files returns the number of records written, the number
\* of source files whose processing raised, and the number of directories
\* that received a record; and no record was written from a file counted as
\* failed.
C30_ReturnCounts ==
    spc = "returned" =>
        /\ sret[1] = Len(swrites)
        /\ sret[2] = Cardinality({f \in DOMAIN sources : sresult[f].error})
        /\ sret[3] = Cardinality({swrites[j].dir : j \in 1..Len(swrites)})
        /\ \A j \in 1..Len(swrites) : ~sresult[swrites[j].src].error

(***************************************************************************)
(* Properties of the dock.py process                                       *)
(***************************************************************************)

\* C31: a run of dock.py that finds the receptor or the ligands missing
\* exits non-zero, coming straight from the start of the process with the
\* state file and the outputs untouched; every other run without --reset
\* that ends by itself exits zero, whatever the engine did and however many
\* ligands failed.
C31_ExitStatus ==
    /\ [](pc = "setup_error" => MainExit(pc, ret) # 0)
    /\ [][pc' = "setup_error" =>
            (pc \in Terminal /\ file' = file /\ out' = out)]_vars
    /\ [](pc \in {"returned", "raised"} => MainExit(pc, ret) = 0)

\* C32: when download_all_from_uri_file has returned after a halt, the two
\* counts it returns add up to the number of units whose outcome is recorded
\* in the counters.
C32_HaltReturnsRecordedCounts ==
    (fpc = "done" /\ halted) =>
        downloaded_files_count + failed_downloads_count
            = progress_counter.total_processed

\* C33: after a batch run whose engine invocation exited with code zero,
\* the ligands counted successful have one docked output each: no two of
\* them have the same expected output path.
C33_OwnOutputPerLigand ==
    (pc = "returned" /\ Len(ligand_files) > 1 /\ exitcode = "zero") =>
        \A l1 \in found : \A l2 \in found :
            l1 # l2 => ExpectedOutput(l1, "batch") # ExpectedOutput(l2, "batch")

(***************************************************************************)
(* Properties of the score parser                                          *)
(***************************************************************************)

\* The score lines of a file, in file order
ResultLines(L) == SelectSeq(L, LAMBDA l : l.k = "RESULT")

\* The score lines with at least four fields, the fourth one a number
ParsableLines(L) ==
    SelectSeq(L, LAMBDA l : l.k = "RESULT" /\ l.nf >= 4 /\ l.num)

\* C34 (as stated): the list returned has one record per score line, in
\* file order, the k-th with mode k and the affinity of the k-th score line.
C34_RecordPerScoreLine ==
    ppc = "returned" =>
        /\ Len(presult) = Len(ResultLines(plines))
        /\ \A k \in 1..Len(presult) :
              /\ presult[k].mode = k
              /\ presult[k].affinity = ResultLines(plines)[k].v

\* C34 (amended): the list returned has one record per score line that has
\* at least four fields and a number as its fourth field, in file order, the
\* k-th with mode k and that number as its affinity; a file that cannot be
\* read to its end gives the empty list.
C34_RecordPerParsableLine ==
    ppc = "returned" =>
        IF \E k \in 1..Len(plines) : plines[k].k = "BAD"
        THEN presult = <<>>
        ELSE presult =
                [k \in 1..Len(ParsableLines(plines)) |->
                    [affinity |-> ParsableLines(plines)[k].v,
                     has_mode |-> TRUE, mode |-> k]]

\* The file with two MODEL/ENDMDL blocks of one score line each has been
\* parsed into two records with the modes 1 and 2
C34_Witness ==
    /\ ppc = "returned"
    /\ plines = ExampleScores
    /\ Len(presult) = 2
    /\ presult[1].mode = 1 /\ presult[1].affinity = 1
    /\ presult[2].mode = 2 /\ presult[2].affinity = 2

(***************************************************************************)
(* Properties of run_unidock: ledger, counts and engine invocations        *)
(***************************************************************************)

\* C35: inside a run, an identity enters completed_ligands only in the
\* per-ligand step that follows an engine invocation over it that exited
\* with code zero, and only when its expected output is non-empty at that
\* step; a ligand of the run that was not found successful (failed or never
\* looked at) is not in the ledger.
C35_MarkedOnlyAfterZeroExitAndOutput ==
    /\ [][\A l \in Ligands :
            (pc \notin Terminal /\ l \notin CompletedOf(state)
                /\ l \in CompletedOf(state'))
            => /\ pc = "record"
               /\ exitcode = "zero"
               /\ l = ligand_files[i]
               /\ out[<<Base(l), IF Len(ligand_files) > 1
                                 THEN "out" ELSE "docked">>] = "nonempty"]_vars
    /\ [](pc \notin Terminal =>
            /\ CompletedOf(state) \subseteq persistedAtStart \cup found
            /\ \A k \in 1..Len(ligand_files) :
                  ligand_files[k] \notin found
                      => ligand_files[k] \notin CompletedOf(state))

\* a batch run over two ligands has marked one of them and has left the
\* other, whose output is empty, out of the ledger
C35_Witness ==
    /\ pc = "save_open"
    /\ Len(ligand_files) = 2
    /\ exitcode = "zero"
    /\ \E l1, l2 \in Range(ligand_files) :
          /\ l1 \in CompletedOf(state) /\ l1 \notin persistedAtStart
          /\ l2 \notin CompletedOf(state)
          /\ out[ExpectedOutput(l2, "batch")] = "empty"

\* C36: at every normal return of run_unidock the two numbers returned add
\* up to the number of ligand files discovered: the first one counts the
\* ligands skipped as completed and the ligands found successful, the second
\* one every other ligand, each ligand once.
C36_CountsCoverDiscovered ==
    pc = "returned" =>
        /\ ret[1] + ret[2] = Len(Discovered)
        /\ ret[1] = Cardinality(Range(Discovered) \cap persistedAtStart)
                        + Cardinality(found)
        /\ ret[2] = Cardinality((Range(Discovered) \ persistedAtStart)
                                    \ found)

\* a resumed run whose engine exited with a non-zero code has returned: one
\* ligand skipped as completed, the two others failed
C36_Witness ==
    /\ pc = "returned"
    /\ exitcode = "nonzero"
    /\ Cardinality(persistedAtStart) = 1
    /\ ret = <<1, 2>>

\* C37: a call of run_unidock enters the engine at most once, and only over
\* a non-empty list that holds exactly the discovered ligands the loaded
\* ledger does not mark completed, in discovery order and each once (so the
\* engine is not entered when all are completed); the engine writes the
\* outputs of single mode exactly when that list has one ligand.
C37_OneInvocationOverRemaining ==
    /\ [][pc' = "prepare" => (pc \in Terminal /\ runs' = runs + 1)]_vars
    /\ [][(pc' = "invoke" /\ pc # "invoke")
            => (pc = "prepare" /\ runs' = runs)]_vars
    /\ [](pc \in {"prepare", "invoke"} =>
            /\ ligand_files =
                  SelectSeq(Discovered, LAMBDA l : l \notin persistedAtStart)
            /\ Len(ligand_files) >= 1)
    /\ [][pc = "invoke" =>
            \A p \in OutPaths :
                out'[p] # out[p] =>
                    \E l \in Range(ligand_files) :
                        p = <<Base(l), IF Len(ligand_files) = 1
                                       THEN "docked" ELSE "out">>]_vars

\* the second run of a directory, with two ligands completed by the first
\* one, is in the engine over the one ligand that remains
C37_Witness ==
    /\ pc = "invoke"
    /\ runs = 2
    /\ Cardinality(persistedAtStart) = 2
    /\ Len(ligand_files) = 1

(***************************************************************************)
(* Properties of the error handling of one transfer unit                   *)
(***************************************************************************)

\* C38: an attempt that ends in a request error (a timeout included) is
\* followed by one more attempt while fewer than 3 retries have been made,
\* and by no counter update; an attempt that ends in any other exception
\* caught by the function ends the unit at once: the function returns None,
\* no further attempt is made, and failed, consecutive_failures and
\* total_processed each go up by one.
C38_TransientRetriedOtherFails ==
    /\ [][(upc = "call" /\ script[retry_count + 1] = "transient"
              /\ retry_count < 3)
            => /\ upc' = "backoff"
               /\ progress_counter' = progress_counter
               /\ uresult' = <<>>]_vars
    /\ [][upc = "backoff"
            => /\ upc' = "call"
               /\ retry_count' = retry_count + 1
               /\ progress_counter' = progress_counter]_vars
    /\ [][(upc = "call" /\ script[retry_count + 1] = "error")
            => /\ upc' = "returned"
               /\ uresult' = <<"None">>
               /\ retry_count' = retry_count
               /\ progress_counter'.failed = progress_counter.failed + 1
               /\ progress_counter'.consecutive_failures =
                     progress_counter.consecutive_failures + 1
               /\ progress_counter'.total_processed =
                     progress_counter.total_processed + 1
               /\ progress_counter'.completed = progress_counter.completed
          ]_vars
    /\ [][upc # "returned"]_vars

\* a unit whose first attempt timed out and whose second attempt ended in
\* another exception has failed for good after two attempts
C38_Witness ==
    /\ upc = "returned"
    /\ script[1] = "transient"
    /\ script[2] = "error"
    /\ attempts = 2
    /\ retry_count = 1
    /\ uresult = <<"None">>
    /\ progress_counter.failed = 1

(***************************************************************************)
(* Properties of run_single_unidock                                        *)
(***************************************************************************)

\* C39: run_single_unidock returns 0 without an engine invocation when the
\* expected output exists with non-zero size; otherwise it invokes the engine
\* exactly once and returns 0 only if the engine exited with code zero and
\* the output then exists with non-zero size, and 1 if not.
C39_SuccessNeedsZeroExitAndArtifact ==
    /\ dcalls <= 1
    /\ dpc = "invoke" => dout[Base(dligand)] # "nonempty"
    /\ dpc = "returned" =>
          IF dcalls = 0
          THEN dret = 0 /\ dout[Base(dligand)] = "nonempty"
          ELSE /\ dret \in {0, 1}
               /\ dret = 0 <=>
                     (dcode = "zero" /\ dout[Base(dligand)] = "nonempty")

(***************************************************************************)
(* Properties of the record boundaries of the splitter                     *)
(***************************************************************************)

\* C40: every write of the splitter covers source lines that begin at a
\* MODEL line and run up to its ENDMDL line, or up to the line before the
\* next MODEL line or the last line of the file, and holds those lines
\* without the marker lines; the count returned for a file that was read to
\* its end is the number of its MODEL lines, so that a line outside every
\* record is not written, starts no record and is not counted.
C40_OnlyRecordLinesWritten ==
    /\ \A k \in 1..Len(swrites) :
          LET e == swrites[k]
              L == sources[e.src].lines
          IN  /\ L[e.from].k = "MODEL"
              /\ \A j \in (e.from + 1)..e.to :
                    /\ L[j].k # "MODEL"
                    /\ L[j].k = "ENDMDL" => j = e.to
              /\ e.lines =
                    SelectSeq([j \in 1..(e.to - e.from + 1) |->
                                  strip(L[e.from + j - 1])],
                              LAMBDA l : l.k \notin {"MODEL", "ENDMDL"})
    /\ \A f \in 1..Len(sources) :
          (sstatus[f] \in {"done", "collected"} /\ ~sresult[f].error)
              => sresult[f].count = RecordCount(sources[f].lines)

====
